---- MODULE Spec2Model ----
(***************************************************************************)
(* The discovery engine of whosthere (package discovery): Start, Stop,     *)
(* Scan, the scan loop, performScan with its scanner goroutines, and the   *)
(* non-blocking event channel.                                             *)
(*                                                                         *)
(* Goroutines are interleaved at the granularity of their shared-memory    *)
(* operations: a step holds at most one operation on the event channel,    *)
(* the mutex-protected fields, the wait group or a context.  Time is a     *)
(* discrete clock; a goroutine that can run does so before the clock       *)
(* advances (Tick is disabled while a scan-loop step is pending), scanner  *)
(* implementations take as long as they like.                              *)
(***************************************************************************)
EXTENDS Integers, Sequences, FiniteSets, TLC

\* ---- bounds of the model -------------------------------------------------
EventBuf == 1          \* capacity of the event channel (DefaultEventBuf, scaled)
MaxStarts == 2         \* Start calls that launch workers
MaxScans == 2          \* scans run by one scan loop
MaxDirectScans == 1    \* calls of Engine.Scan
MaxObs == 1            \* observations one scanner delivers in one scan
MaxTime == 4           \* clock horizon
ScanTimeout == 3       \* WithScanTimeout value given at construction
MaxCalls == 3          \* calls made on the Devices in one run
MaxPorts == 2          \* length of a port list given to SetOpenPorts
MaxAge == 2            \* age of an ARP cache entry
MaxHeapCalls == 3      \* calls on Devices and writes to getter results, in one run

Intervals == {0, 2}    \* WithScanInterval values given at construction
Scanners == {1, 2}     \* the scanners an engine can be given
StopCallers == {1, 2}  \* goroutines that call Stop
IPs == {1, 2}          \* valid device IPs; 0 is an observation without an IP

Loops == 1..MaxStarts  \* a scan loop is named by the Start call that launched it
Owners == 0..MaxStarts \* owner of a scan: 0 is a direct Engine.Scan call, else a loop
Obs == {0} \cup IPs
LoopObs == {0, 1}      \* what the scanners observe in the runs of the scan loop

VARIABLES
  scanInterval,  \* e.scanInterval
  scanners,      \* e.scanners
  hasSweeper,    \* e.sweeper != nil
  running,       \* e.running
  cancel,        \* e.cancel: the context of the latest Start (0: nil)
  ctxDone,       \* the Start contexts that have been cancelled
  wg,            \* e.wg counter
  events,        \* e.events: the types of the events in the channel's buffer
  closed,        \* e.events has been closed
  panicked,      \* "none", or the runtime panic that ended the process
  first,         \* history: the type of the first event put on e.events
  last,          \* history: the type of the latest event put on e.events
  mon,           \* history: per scan loop, type and scan of its latest event put on e.events
  nStopped,      \* history: the EngineStopped events put on e.events
  now,           \* time.Now()
  loop,          \* runScanLoop goroutines: pc, nextDue, scanStart; and, as history,
                 \* launched (when Start launched it), scanEnd (when performScan returned)
  scan,          \* performScan activations: st, n, start, devices (the map, as a set
                 \* of [ip, dev]), count and result (what it reported and returned);
                 \* and, as history, seen (the valid observations it received, in
                 \* order) and disc (the devices of the DeviceDiscovered events it
                 \* passed to emit, in order)
  scanner,       \* scanner goroutines of performScan: st, n, sent, res (what Scan returned)
  sweeping,      \* loops whose sweeper goroutine (launched by the same Start) is running
  stop,          \* Stop calls in progress: pc, cancel (local), started
  dev,           \* the Devices (device.go), by name: the fields of each
  call,          \* history: the latest call on a Device: op, d (receiver), other
  mu,            \* Device.mu of each Device: writer (holds or has announced Lock), readers
  merging,       \* goroutines inside Device.Merge: pc, d (receiver), other
  heap,          \* Devices as Go values: the memory of their ip slices, maps and port
                 \* lists, the references each Device and each getter result holds
  calc,          \* a call of a function without side effects: f, input, output
  ps,            \* a call of PortScanner.Stream with its goroutines and channels
  fan,           \* the fan-in channel of one scan, its non-blocking senders and reader
  sc             \* a built-in scanner's Scan call with its connection and context

evars == <<scanInterval, scanners, hasSweeper, running, cancel, ctxDone, wg, events, closed,
           panicked, first, last, mon, nStopped, now, loop, scan, scanner, sweeping,
           stop>>

dvars == <<dev, call, mu, merging>>

ovars == <<heap, calc, ps, fan, sc>>

vars == <<evars, dvars, ovars>>

\* ---- events (event.go) ----------------------------------------------------
Event(t, o, n, d) == [type |-> t, src |-> o, n |-> n, device |-> d]
NewEngineStartedEvent == Event("EngineStarted", 0, 0, 0)
NewEngineStoppedEvent == Event("EngineStopped", 0, 0, 0)
NewScanStartedEvent(o, n) == Event("ScanStarted", o, n, 0)
NewScanCompletedEvent(o, n) == Event("ScanCompleted", o, n, 0)
NewErrorEvent(o, n) == Event("Error", o, n, 0)
NewDeviceEvent(o, n, d) == Event("DeviceDiscovered", o, n, d)

\* ---- emit: select { case e.events <- event: default: } ---------------------
\* A send on a closed channel panics, also inside a select with a default case.
EmitPanics == closed

EmitFits == Len(events) < EventBuf

NoEvent == [type |-> "none", n |-> 0]

hist == <<first, last, mon, nStopped>>

\* (mutant) e.events <- event, without the default case: the send waits for room.
emitBlocking(ev) ==
  IF EmitPanics
    THEN /\ panicked' = "send on closed channel"
         /\ UNCHANGED <<events, hist>>
    ELSE /\ EmitFits
         /\ events' = Append(events, ev.type)
         /\ first' = IF first = "none" THEN ev.type ELSE first
         /\ last' = ev.type
         /\ mon' = IF ev.src \in Loops
                     THEN [mon EXCEPT ![ev.src] = [type |-> ev.type, n |-> ev.n]]
                     ELSE mon
         /\ nStopped' = IF ev.type = "EngineStopped" THEN nStopped + 1 ELSE nStopped
         /\ UNCHANGED panicked

emit(ev) ==
  IF EmitPanics
    THEN /\ panicked' = "send on closed channel"
         /\ UNCHANGED <<events, hist>>
    ELSE IF EmitFits
      THEN /\ events' = Append(events, ev.type)
           /\ first' = IF first = "none" THEN ev.type ELSE first
           /\ last' = ev.type
           /\ mon' = IF ev.src \in Loops
                       THEN [mon EXCEPT ![ev.src] = [type |-> ev.type, n |-> ev.n]]
                       ELSE mon
           /\ nStopped' = IF ev.type = "EngineStopped" THEN nStopped + 1 ELSE nStopped
           /\ UNCHANGED panicked
      ELSE UNCHANGED <<events, hist, panicked>>

\* ---- NewEngine -------------------------------------------------------------
\* The engine after construction: at least one scanner, or a sweeper.
NewEngine ==
  /\ scanInterval \in Intervals
  /\ scanners \in SUBSET Scanners
  /\ hasSweeper \in BOOLEAN
  /\ scanners # {} \/ hasSweeper
  /\ running = FALSE
  /\ cancel = 0
  /\ ctxDone = {}
  /\ wg = 0
  /\ events = <<>>
  /\ closed = FALSE
  /\ panicked = "none"
  /\ first = "none"
  /\ last = "none"
  /\ mon = [l \in Loops |-> NoEvent]
  /\ nStopped = 0
  /\ now = 0
  /\ loop = [l \in Loops |-> [pc |-> "none", nextDue |-> 0, scanStart |-> 0,
                            launched |-> 0, scanEnd |-> 0]]
  /\ scan = [o \in Owners |-> [st |-> "idle", n |-> 0, start |-> 0, devices |-> {},
                              count |-> 0, result |-> {}, seen |-> <<>>, disc |-> <<>>]]
  /\ scanner = [o \in Owners |-> [k \in Scanners |-> [st |-> "idle", n |-> 0, sent |-> 0,
                                                         res |-> "none"]]]
  /\ sweeping = {}
  /\ stop = [c \in StopCallers |-> [pc |-> "idle", cancel |-> 0, started |-> FALSE]]

Alive == panicked = "none"

\* ---- Start -----------------------------------------------------------------
Start ==
  /\ Alive
  /\ IF running
       THEN UNCHANGED vars                       \* return e.Events
       ELSE /\ cancel < MaxStarts
            /\ cancel' = cancel + 1
            /\ running' = TRUE
            /\ emit(NewEngineStartedEvent)
            /\ sweeping' = IF hasSweeper THEN sweeping \cup {cancel + 1} ELSE sweeping
            /\ wg' = wg + (IF hasSweeper THEN 2 ELSE 1)
            /\ loop' = [loop EXCEPT ![cancel + 1].pc = "start", ![cancel + 1].launched = now]
            /\ UNCHANGED <<ovars, dvars, scanInterval, scanners, hasSweeper, ctxDone, closed, now, scan,
                           scanner, stop>>

\* ---- performScan -----------------------------------------------------------
\* The scan context: the owner's context with a deadline of scanTimeout.
ScanCtxDone(o) == o \in ctxDone \/ now >= scan[o].start + ScanTimeout

\* emit(ScanStarted); start := time.Now(); one goroutine per scanner.
BeginScan(o) ==
  /\ scan' = [scan EXCEPT ![o] = [st |-> "scanning", n |-> @.n + 1, start |-> now,
                                  devices |-> {}, count |-> 0, result |-> {},
                                  seen |-> <<>>, disc |-> <<>>]]
  /\ scanner' = [scanner EXCEPT ![o] =
                   [k \in Scanners |-> [st |-> IF k \in scanners THEN "running" ELSE "idle",
                                        n |-> scan[o].n + 1, sent |-> 0,
                                        res |-> "none"]]]
  /\ emit(NewScanStartedEvent(o, scan[o].n + 1))

\* (mutant) processDevice that skips "d = existing": the event carries the
\* observation it was called with.
processDeviceEmitsObservation(o, d) ==
  IF d.ip = 0
    THEN UNCHANGED <<scan, events, hist, panicked>>
    ELSE LET found == \E e \in scan[o].devices : e.ip = d.ip
             ev == NewDeviceEvent(o, scan[o].n, d)
         IN  /\ scan' = [scan EXCEPT ![o].devices = IF found THEN @ ELSE @ \cup {d},
                                      ![o].seen = Append(@, d),
                                      ![o].disc = Append(@, ev.device)]
             /\ emit(ev)

\* (mutant) processDevice that stores every observation, found or not.
processDeviceWithoutLookup(o, d) ==
  IF d.ip = 0
    THEN UNCHANGED <<scan, events, hist, panicked>>
    ELSE LET ev == NewDeviceEvent(o, scan[o].n, d)
         IN  /\ scan' = [scan EXCEPT ![o].devices = @ \cup {d},
                                      ![o].seen = Append(@, d),
                                      ![o].disc = Append(@, ev.device)]
             /\ emit(ev)

\* processDevice: an observation without an IP is dropped.  If the scan's map has
\* a device under the IP the observation is merged into it (the fields: Merge
\* below), else the observation becomes the device of that IP; DeviceDiscovered
\* is emitted with the device of the map.
processDevice(o, d) ==
  IF d.ip = 0
    THEN UNCHANGED <<scan, events, hist, panicked>>
    ELSE LET found == \E e \in scan[o].devices : e.ip = d.ip
             existing == CHOOSE e \in scan[o].devices : e.ip = d.ip
             ev == NewDeviceEvent(o, scan[o].n, IF found THEN existing ELSE d)
         IN  /\ scan' = [scan EXCEPT ![o].devices = IF found THEN @ ELSE @ \cup {d},
                                      ![o].seen = Append(@, d),
                                      ![o].disc = Append(@, ev.device)]
             /\ emit(ev)

\* A scanner hands an observation to the reader of scannerOut (unbuffered:
\* maxDevices is never set), which runs processDevice on it.  The observation is
\* a Device of its own, named by the scanner and the number of the observation.
ScannerObserve(o, k, d) ==
  /\ Alive
  /\ scanner[o][k].st = "running"
  /\ scanner[o][k].sent < MaxObs
  /\ scan[o].st = "scanning"
  /\ scanner' = [scanner EXCEPT ![o][k].sent = @ + 1]
  /\ processDevice(o, [ip |-> d, dev |-> <<k, scanner[o][k].sent + 1>>])
  /\ UNCHANGED <<ovars, dvars, scanInterval, scanners, hasSweeper, running, cancel, ctxDone, wg, closed, now,
                 loop, sweeping, stop>>

\* s.Scan returns r; a non-nil error is emitted as an Error event; scannerWg.Done().
\* A context error can only be returned once the scan context is done.
ScannerReturn(o, k, r) ==
  /\ Alive
  /\ scanner[o][k].st = "running"
  /\ r = "ctxerr" => ScanCtxDone(o)
  /\ scanner' = [scanner EXCEPT ![o][k].st = "returned", ![o][k].res = r]
  /\ IF r = "nil" THEN UNCHANGED <<events, hist, panicked>>
                  ELSE emit(NewErrorEvent(o, scanner[o][k].n))
  /\ UNCHANGED <<ovars, dvars, scanInterval, scanners, hasSweeper, running, cancel, ctxDone, wg, closed, now,
                 loop, scan, sweeping, stop>>

\* (mutant) scannerOut is also closed when the scan context is done.
ScannerOutClosedOnDeadline(o) ==
  (\A k \in Scanners : scanner[o][k].st # "running") \/ ScanCtxDone(o)

\* The reaper closes scannerOut after scannerWg.Wait(); the range loop of
\* performScan ends when scannerOut is closed.
ScannerOutClosed(o) == \A k \in Scanners : scanner[o][k].st # "running"

\* (mutant) performScan returns without reading scannerOut until it is closed.
CompleteScanWithoutWait(o) ==
  /\ scan[o].st = "scanning"
  /\ scan' = [scan EXCEPT ![o].st = "idle", ![o].count = Cardinality(scan[o].devices),
                           ![o].result = {e.dev : e \in scan[o].devices},
                           ![o].devices = {}]
  /\ UNCHANGED scanner
  /\ emit(NewScanCompletedEvent(o, scan[o].n))

\* (mutant) performScan returns the first scanner error instead of completing.
CompleteScanUnlessFailed(o) ==
  /\ scan[o].st = "scanning"
  /\ ScannerOutClosed(o)
  /\ scan' = [scan EXCEPT ![o].st = "idle", ![o].count = Cardinality(scan[o].devices),
                           ![o].result = {e.dev : e \in scan[o].devices},
                           ![o].devices = {}]
  /\ scanner' = [scanner EXCEPT ![o] = [k \in Scanners |-> [@[k] EXCEPT !.res = "none"]]]
  /\ IF \E k \in Scanners : scanner[o][k].res = "err"
       THEN UNCHANGED <<events, hist, panicked>>
       ELSE emit(NewScanCompletedEvent(o, scan[o].n))

\* stats.DeviceCount = len(devices); emit(ScanCompleted); return the devices of
\* the map.  The map ends with the activation.
CompleteScan(o) ==
  /\ scan[o].st = "scanning"
  /\ ScannerOutClosed(o)
  /\ scan' = [scan EXCEPT ![o].st = "idle", ![o].count = Cardinality(scan[o].devices),
                           ![o].result = {e.dev : e \in scan[o].devices},
                           ![o].devices = {}]
  /\ scanner' = [scanner EXCEPT ![o] = [k \in Scanners |-> [@[k] EXCEPT !.res = "none"]]]
  /\ emit(NewScanCompletedEvent(o, scan[o].n))

\* ---- Scan ------------------------------------------------------------------
\* Engine.Scan on the caller's goroutine, up to the range loop of performScan.
\* The sweeper goroutine it starts is in no wait group and touches no engine
\* state, so it has no place in the state.
ScanCall ==
  /\ Alive
  /\ scan[0].st = "idle"
  /\ scan[0].n < MaxDirectScans
  /\ BeginScan(0)
  /\ UNCHANGED <<ovars, dvars, scanInterval, scanners, hasSweeper, running, cancel, ctxDone, wg, closed, now,
                 loop, sweeping, stop>>

ScanReturn ==
  /\ Alive
  /\ CompleteScan(0)
  /\ UNCHANGED <<ovars, dvars, scanInterval, scanners, hasSweeper, running, cancel, ctxDone, wg, closed, now,
                 loop, sweeping, stop>>

\* ---- runScanLoop -----------------------------------------------------------
\* (mutant) the interval is measured from the end of the scan.
NextDueFromScanEnd(scanStart, t) == t + scanInterval

\* nextDue = scanStart.Add(e.scanInterval); if nextDue.Before(time.Now()) { nextDue = time.Now() }
NextDue(scanStart, t) ==
  IF scanStart + scanInterval < t THEN t ELSE scanStart + scanInterval

\* (mutant) if e.scanInterval < 0
SingleScanOnNegative == scanInterval < 0

\* if e.scanInterval <= 0
SingleScan == scanInterval <= 0

\* scanInterval <= 0: one scan, whatever the state of ctx.
LoopSingleScan(l) ==
  /\ Alive
  /\ loop[l].pc = "start"
  /\ SingleScan
  /\ BeginScan(l)
  /\ loop' = [loop EXCEPT ![l].pc = "single"]
  /\ UNCHANGED <<ovars, dvars, scanInterval, scanners, hasSweeper, running, cancel, ctxDone, wg, closed, now,
                 sweeping, stop>>

\* performScan returns (its error is always nil); return; deferred e.wg.Done().
LoopSingleDone(l) ==
  /\ Alive
  /\ loop[l].pc = "single"
  /\ CompleteScan(l)
  /\ loop' = [loop EXCEPT ![l].pc = "done", ![l].scanEnd = now]
  /\ wg' = wg - 1
  /\ UNCHANGED <<ovars, dvars, scanInterval, scanners, hasSweeper, running, cancel, ctxDone, closed, now,
                 sweeping, stop>>

\* nextDue := time.Now()
LoopInit(l) ==
  /\ Alive
  /\ loop[l].pc = "start"
  /\ ~SingleScan
  /\ loop' = [loop EXCEPT ![l].pc = "wait", ![l].nextDue = now]
  /\ UNCHANGED <<ovars, dvars, scanInterval, scanners, hasSweeper, running, cancel, ctxDone, wg, events, closed,
                 panicked, hist, now, scan, scanner, sweeping, stop>>

\* (mutant) the scan loop closes e.events when it sees its context done
LoopCancelledClosing(l) ==
  /\ Alive
  /\ loop[l].pc = "wait"
  /\ l \in ctxDone
  /\ loop' = [loop EXCEPT ![l].pc = "done"]
  /\ wg' = wg - 1
  /\ closed' = TRUE
  /\ UNCHANGED <<ovars, dvars, scanInterval, scanners, hasSweeper, running, cancel, ctxDone, events,
                 panicked, hist, now, scan, scanner, sweeping, stop>>

\* case <-ctx.Done(): return, or ctx.Err() != nil: return; deferred e.wg.Done().
LoopCancelled(l) ==
  /\ Alive
  /\ loop[l].pc = "wait"
  /\ l \in ctxDone
  /\ loop' = [loop EXCEPT ![l].pc = "done"]
  /\ wg' = wg - 1
  /\ UNCHANGED <<ovars, dvars, scanInterval, scanners, hasSweeper, running, cancel, ctxDone, events, closed,
                 panicked, hist, now, scan, scanner, sweeping, stop>>

\* The timer has fired (or there was nothing to wait for) and ctx is live:
\* scanStart := time.Now(); performScan begins.
LoopBeginScan(l) ==
  /\ Alive
  /\ loop[l].pc = "wait"
  /\ l \notin ctxDone
  /\ now >= loop[l].nextDue
  /\ scan[l].n < MaxScans
  /\ BeginScan(l)
  /\ loop' = [loop EXCEPT ![l].pc = "scanning", ![l].scanStart = now]
  /\ UNCHANGED <<ovars, dvars, scanInterval, scanners, hasSweeper, running, cancel, ctxDone, wg, closed, now,
                 sweeping, stop>>

\* performScan returns (its error is always nil); the next scan is scheduled.
LoopEndScan(l) ==
  /\ Alive
  /\ loop[l].pc = "scanning"
  /\ CompleteScan(l)
  /\ loop' = [loop EXCEPT ![l].pc = "wait", ![l].scanEnd = now,
                           ![l].nextDue = NextDue(loop[l].scanStart, now)]
  /\ UNCHANGED <<ovars, dvars, scanInterval, scanners, hasSweeper, running, cancel, ctxDone, wg, closed, now,
                 sweeping, stop>>

\* A step of loop l is pending: the loop is not blocked on its timer or on scanners.
LoopPending(l) ==
  \/ loop[l].pc = "start"
  \/ /\ loop[l].pc = "wait"
     /\ l \in ctxDone \/ (now >= loop[l].nextDue /\ scan[l].n < MaxScans)
  \/ /\ loop[l].pc \in {"scanning", "single"}
     /\ ScannerOutClosed(l)

\* ---- the sweeper goroutine ---------------------------------------------------
\* e.sweeper.Start(ctx) returns (at the latest when its context is done); the
\* goroutine Start launched then calls e.wg.Done().
SweeperReturn(l) ==
  /\ Alive
  /\ l \in sweeping
  /\ sweeping' = sweeping \ {l}
  /\ wg' = wg - 1
  /\ UNCHANGED <<ovars, dvars, scanInterval, scanners, hasSweeper, running, cancel, ctxDone, events, closed,
                 panicked, hist, now, loop, scan, scanner, stop>>

\* ---- Stop --------------------------------------------------------------------
\* The critical section: return if not running, else take e.cancel, clear e.running.
StopEnter(c) ==
  /\ Alive
  /\ stop[c].pc \in {"idle", "returned"}
  /\ IF ~running
       THEN /\ stop' = [stop EXCEPT ![c] = [pc |-> "returned", cancel |-> 0,
                                            started |-> cancel > 0]]
            /\ UNCHANGED <<running>>
       ELSE /\ stop' = [stop EXCEPT ![c] = [pc |-> "cancel", cancel |-> cancel,
                                            started |-> TRUE]]
            /\ running' = FALSE
  /\ UNCHANGED <<ovars, dvars, scanInterval, scanners, hasSweeper, cancel, ctxDone, wg, events, closed, panicked,
                 hist, now, loop, scan, scanner, sweeping>>

\* cancel()
StopCancel(c) ==
  /\ Alive
  /\ stop[c].pc = "cancel"
  /\ ctxDone' = ctxDone \cup {stop[c].cancel}
  /\ stop' = [stop EXCEPT ![c].pc = "wait"]
  /\ UNCHANGED <<ovars, dvars, scanInterval, scanners, hasSweeper, running, cancel, wg, events, closed, panicked,
                 hist, now, loop, scan, scanner, sweeping>>

\* e.wg.Wait()
StopWait(c) ==
  /\ Alive
  /\ stop[c].pc = "wait"
  /\ wg = 0
  /\ stop' = [stop EXCEPT ![c].pc = "emit"]
  /\ UNCHANGED <<ovars, dvars, scanInterval, scanners, hasSweeper, running, cancel, ctxDone, wg, events, closed,
                 panicked, hist, now, loop, scan, scanner, sweeping>>

\* e.emit(NewEngineStoppedEvent())
StopEmit(c) ==
  /\ Alive
  /\ stop[c].pc = "emit"
  /\ emit(NewEngineStoppedEvent)
  /\ stop' = [stop EXCEPT ![c].pc = "close"]
  /\ UNCHANGED <<ovars, dvars, scanInterval, scanners, hasSweeper, running, cancel, ctxDone, wg, closed, now,
                 loop, scan, scanner, sweeping>>

\* close(e.events); return.  Closing a closed channel panics.
StopClose(c) ==
  /\ Alive
  /\ stop[c].pc = "close"
  /\ IF closed
       THEN panicked' = "close of closed channel" /\ UNCHANGED closed
       ELSE closed' = TRUE /\ UNCHANGED panicked
  /\ stop' = [stop EXCEPT ![c].pc = "returned"]
  /\ UNCHANGED <<ovars, dvars, scanInterval, scanners, hasSweeper, running, cancel, ctxDone, wg, events, hist,
                 now, loop, scan, scanner, sweeping>>

\* ---- the consumer of e.Events, and the clock ------------------------------------
Receive ==
  /\ Alive
  /\ events # <<>>
  /\ events' = Tail(events)
  /\ UNCHANGED <<ovars, dvars, scanInterval, scanners, hasSweeper, running, cancel, ctxDone, wg, closed, panicked,
                 hist, now, loop, scan, scanner, sweeping, stop>>

Tick ==
  /\ Alive
  /\ now < MaxTime
  /\ \A l \in Loops : ~LoopPending(l)
  /\ now' = now + 1
  /\ UNCHANGED <<ovars, dvars, scanInterval, scanners, hasSweeper, running, cancel, ctxDone, wg, events, closed,
                 panicked, hist, loop, scan, scanner, sweeping, stop>>

Results == {"nil", "err", "ctxerr"}

\* ======================= Device (device.go) =====================================
\* A field of a Device: ip 0 is a nil IP, "" the empty string, time 0 the zero
\* time; a map is a function on its keys, a nil map the function on no key.
DeviceNames == {"a", "b"}
Strings == {"", "x", "y"}
Sources == {"arp", "mdns"}
ExtraKeys == {"k"}
ExtraValues == {"v", "w"}
Protocols == {"tcp"}
Ports == {80, 443}

EmptyMap == [k \in {} |-> 0]

Range(f) == {f[i] : i \in DOMAIN f}

\* &Device{}
ZeroDevice ==
  [ip |-> 0, mac |-> "", displayName |-> "", manufacturer |-> "", sources |-> {},
   firstSeen |-> 0, lastSeen |-> 0, extraData |-> EmptyMap, openPorts |-> EmptyMap,
   lastPortScan |-> 0]

\* NewDevice(ip) at time t
NewDevice(ip, t) == [ZeroDevice EXCEPT !.ip = ip, !.firstSeen = t, !.lastSeen = t]

\* for _, p := range ports { if !portSet[p] { append; portSet[p] = true } }
RECURSIVE AppendNewPorts(_, _)
AppendNewPorts(list, ports) ==
  IF ports = <<>>
    THEN list
    ELSE AppendNewPorts(IF Head(ports) \in Range(list) THEN list
                                                        ELSE Append(list, Head(ports)),
                        Tail(ports))

\* (mutant) Merge that takes the operand's mac whenever the operand has one.
MergeOverwritingMAC(d, other) ==
  [d EXCEPT
     !.ip = IF d.ip = 0 /\ other.ip # 0 THEN other.ip ELSE @,
     !.mac = IF other.mac # "" THEN other.mac ELSE @,
     !.displayName = IF d.displayName = "" /\ other.displayName # ""
                       THEN other.displayName ELSE @,
     !.manufacturer = IF d.manufacturer = "" /\ other.manufacturer # ""
                        THEN other.manufacturer ELSE @,
     !.sources = @ \cup other.sources,
     !.extraData = [k \in DOMAIN d.extraData \cup DOMAIN other.extraData |->
                      IF k \in DOMAIN d.extraData THEN d.extraData[k]
                                                  ELSE other.extraData[k]],
     !.firstSeen = IF d.firstSeen = 0 \/ (other.firstSeen # 0 /\ other.firstSeen < d.firstSeen)
                     THEN other.firstSeen ELSE @,
     !.lastSeen = IF other.lastSeen > d.lastSeen THEN other.lastSeen ELSE @,
     !.openPorts = [pr \in DOMAIN d.openPorts \cup DOMAIN other.openPorts |->
                      IF pr \notin DOMAIN d.openPorts THEN other.openPorts[pr]
                      ELSE IF pr \notin DOMAIN other.openPorts THEN d.openPorts[pr]
                      ELSE AppendNewPorts(d.openPorts[pr], other.openPorts[pr])],
     !.lastPortScan = IF other.lastPortScan > d.lastPortScan THEN other.lastPortScan ELSE @]

\* d.Merge(other), between taking and releasing the two locks
Merge(d, other) ==
  [d EXCEPT
     !.ip = IF d.ip = 0 /\ other.ip # 0 THEN other.ip ELSE @,
     !.mac = IF d.mac = "" /\ other.mac # "" THEN other.mac ELSE @,
     !.displayName = IF d.displayName = "" /\ other.displayName # ""
                       THEN other.displayName ELSE @,
     !.manufacturer = IF d.manufacturer = "" /\ other.manufacturer # ""
                        THEN other.manufacturer ELSE @,
     !.sources = @ \cup other.sources,
     !.extraData = [k \in DOMAIN d.extraData \cup DOMAIN other.extraData |->
                      IF k \in DOMAIN d.extraData THEN d.extraData[k]
                                                  ELSE other.extraData[k]],
     !.firstSeen = IF d.firstSeen = 0 \/ (other.firstSeen # 0 /\ other.firstSeen < d.firstSeen)
                     THEN other.firstSeen ELSE @,
     !.lastSeen = IF other.lastSeen > d.lastSeen THEN other.lastSeen ELSE @,
     !.openPorts = [pr \in DOMAIN d.openPorts \cup DOMAIN other.openPorts |->
                      IF pr \notin DOMAIN d.openPorts THEN other.openPorts[pr]
                      ELSE IF pr \notin DOMAIN other.openPorts THEN d.openPorts[pr]
                      ELSE AppendNewPorts(d.openPorts[pr], other.openPorts[pr])],
     !.lastPortScan = IF other.lastPortScan > d.lastPortScan THEN other.lastPortScan ELSE @]

\* No Device call is in progress or has been made: the state of the Device part
\* in the runs of the engine above.
NoCall == [op |-> "none", d |-> "a", other |-> "a", n |-> 0]

Mergers == {1, 2}      \* goroutines that call Merge

\* The parts of the program that take no part in a run.
NoHeap == [n |-> 0]
NoCalc == [f |-> "none"]
NoStream == [pc |-> "none"]
NoFanIn == [pc |-> "none"]
NoScanner == [pc |-> "none"]

NoOthers ==
  /\ heap = NoHeap
  /\ calc = NoCalc
  /\ ps = NoStream
  /\ fan = NoFanIn
  /\ sc = NoScanner

NoMerging ==
  /\ NoOthers
  /\ call = NoCall
  /\ mu = [x \in DeviceNames |-> [writer |-> 0, readers |-> {}]]
  /\ merging = [g \in Mergers |-> [pc |-> "idle", d |-> "a", other |-> "a"]]

NoDevices == NoMerging /\ dev = [x \in DeviceNames |-> ZeroDevice]

\* An engine that is not used, and no Device in use.
NoEngine == NewEngine /\ scanners = Scanners /\ ~hasSweeper /\ scanInterval = 0

NoDeviceCalls ==
  /\ call = NoCall
  /\ mu = [x \in DeviceNames |-> [writer |-> 0, readers |-> {}]]
  /\ merging = [g \in Mergers |-> [pc |-> "idle", d |-> "a", other |-> "a"]]
  /\ dev = [x \in DeviceNames |-> ZeroDevice]

\* d.Merge(other) by one goroutine at a time; "if d == other { return }".
MergeCall(x, y) ==
  /\ call.n < MaxCalls
  /\ dev' = IF x = y THEN dev ELSE [dev EXCEPT ![x] = Merge(dev[x], dev[y])]
  /\ call' = [op |-> "Merge", d |-> x, other |-> y, n |-> call.n + 1]
  /\ UNCHANGED <<ovars, evars, mu, merging>>

\* ---- sequences of Merge calls on two Devices whose identity fields and extra
\* ---- data were set in any way
ExtraMaps == UNION {[K -> ExtraValues] : K \in SUBSET ExtraKeys}

FieldDevices ==
  {[ZeroDevice EXCEPT !.ip = i, !.mac = m, !.displayName = n, !.manufacturer = f,
                      !.extraData = e] :
     i \in {0} \cup IPs, m \in Strings, n \in Strings, f \in Strings, e \in ExtraMaps}

InitMerge ==
  /\ NewEngine /\ scanners = Scanners /\ ~hasSweeper /\ scanInterval = 0
  /\ NoMerging
  /\ dev \in [DeviceNames -> FieldDevices]

NextMerge == \E x \in DeviceNames, y \in DeviceNames : MergeCall(x, y)

SpecMerge == InitMerge /\ [][NextMerge]_vars

\* ---- two Devices with the same IP: their sources and open ports are set, then
\* ---- Merge calls follow
PortLists == UNION {[1..n -> Ports] : n \in 0..MaxPorts}

PortMaps == UNION {[P -> PortLists] : P \in SUBSET Protocols}

\* d.sources[name] = struct{}{}
AddSource(x, name) ==
  /\ call.op # "Merge"
  /\ dev' = [dev EXCEPT ![x].sources = @ \cup {name}]
  /\ call' = [op |-> "AddSource", d |-> x, other |-> x, n |-> 0]
  /\ UNCHANGED <<ovars, evars, mu, merging>>

\* d.openPorts = a copy of ports, list by list
SetOpenPorts(x, ports) ==
  /\ call.op # "Merge"
  /\ dev' = [dev EXCEPT ![x].openPorts = [pr \in DOMAIN ports |-> ports[pr]]]
  /\ call' = [op |-> "SetOpenPorts", d |-> x, other |-> x, n |-> 0]
  /\ UNCHANGED <<ovars, evars, mu, merging>>

InitMergePorts ==
  /\ NewEngine /\ scanners = Scanners /\ ~hasSweeper /\ scanInterval = 0
  /\ NoMerging
  /\ dev = [x \in DeviceNames |-> NewDevice(1, 1)]

NextMergePorts ==
  \/ \E x \in DeviceNames, name \in Sources : AddSource(x, name)
  \/ \E x \in DeviceNames, ports \in PortMaps : SetOpenPorts(x, ports)
  \/ \E x \in DeviceNames, y \in DeviceNames : MergeCall(x, y)

SpecMergePorts == InitMergePorts /\ [][NextMergePorts]_vars

\* ---- the Devices scanners create while the clock runs, and the engine merges
\* A scanner other than ARP: dev := discovery.NewDevice(ip), then setters that
\* leave the times alone.
ScannerNewDevice(x) ==
  /\ now > 0
  /\ dev' = [dev EXCEPT ![x] = NewDevice(1, now)]
  /\ call' = [call EXCEPT !.op = "NewDevice", !.d = x, !.other = x]
  /\ UNCHANGED <<ovars, evars, mu, merging>>

\* The ARP scanner, for one cache entry: dd := discovery.NewDevice(entry.IP), then
\* dd.SetLastSeen(now.Add(-entry.Age)) if entry.Age > 0, else dd.SetLastSeen(now).
emitARPEntries(x, age) ==
  /\ now > age
  /\ dev' = [dev EXCEPT ![x] = [NewDevice(1, now) EXCEPT
                                  !.mac = "x", !.sources = {"arp"},
                                  !.lastSeen = IF age > 0 THEN now - age ELSE now]]
  /\ call' = [call EXCEPT !.op = "emitARPEntries", !.d = x, !.other = x]
  /\ UNCHANGED <<ovars, evars, mu, merging>>

InitSeen ==
  /\ NewEngine /\ scanners = Scanners /\ ~hasSweeper /\ scanInterval = 0
  /\ NoDevices

NextSeen ==
  \/ \E x \in DeviceNames : ScannerNewDevice(x)
  \/ \E x \in DeviceNames, age \in 0..MaxAge : emitARPEntries(x, age)
  \/ \E x \in DeviceNames, y \in DeviceNames : MergeCall(x, y) /\ dev[x].ip # 0 /\ dev[y].ip # 0
  \/ Tick

SpecSeen == InitSeen /\ [][NextSeen]_vars

\* ---- Merge calls by concurrent goroutines, lock by lock.  A sync.RWMutex: Lock
\* ---- excludes other writers at once, then waits for the readers to leave;
\* ---- RLock waits while a writer holds or awaits the lock.
\* if other == nil / d == other { return }
MergeEnter(g, x, y) ==
  /\ merging[g].pc \in {"idle", "done"}
  /\ call.n < MaxCalls
  /\ merging' = [merging EXCEPT ![g] = [pc |-> IF x = y THEN "done" ELSE "lock",
                                        d |-> x, other |-> y]]
  /\ call' = [op |-> "Merge", d |-> x, other |-> y, n |-> call.n + 1]
  /\ UNCHANGED <<ovars, evars, dev, mu>>

\* d.mu.Lock(): no other writer
MergeLock(g) ==
  /\ merging[g].pc = "lock"
  /\ mu[merging[g].d].writer = 0
  /\ mu' = [mu EXCEPT ![merging[g].d].writer = g]
  /\ merging' = [merging EXCEPT ![g].pc = "locking"]
  /\ UNCHANGED <<ovars, evars, dev, call>>

\* d.mu.Lock() returns: no reader is left
MergeLocked(g) ==
  /\ merging[g].pc = "locking"
  /\ mu[merging[g].d].readers = {}
  /\ merging' = [merging EXCEPT ![g].pc = "rlock"]
  /\ UNCHANGED <<ovars, evars, dev, call, mu>>

\* other.mu.RLock()
MergeRLock(g) ==
  /\ merging[g].pc = "rlock"
  /\ mu[merging[g].other].writer = 0
  /\ mu' = [mu EXCEPT ![merging[g].other].readers = @ \cup {g}]
  /\ merging' = [merging EXCEPT ![g].pc = "body"]
  /\ UNCHANGED <<ovars, evars, dev, call>>

\* The body of Merge; the deferred other.mu.RUnlock() and d.mu.Unlock(); return.
MergeReturn(g) ==
  /\ merging[g].pc = "body"
  /\ dev' = [dev EXCEPT ![merging[g].d] = Merge(dev[merging[g].d], dev[merging[g].other])]
  /\ mu' = [mu EXCEPT ![merging[g].other].readers = @ \ {g}, ![merging[g].d].writer = 0]
  /\ merging' = [merging EXCEPT ![g].pc = "done"]
  /\ UNCHANGED <<ovars, evars, call>>

InitMergeLocks ==
  /\ NewEngine /\ scanners = Scanners /\ ~hasSweeper /\ scanInterval = 0
  /\ NoMerging
  /\ dev = [x \in DeviceNames |->
              [NewDevice(1, 1) EXCEPT !.mac = IF x = "a" THEN "x" ELSE "",
                                      !.displayName = IF x = "a" THEN "" ELSE "y"]]

NextMergeLocks ==
  \/ \E g \in Mergers, x \in DeviceNames, y \in DeviceNames : MergeEnter(g, x, y)
  \/ \E g \in Mergers : MergeLock(g)
  \/ \E g \in Mergers : MergeLocked(g)
  \/ \E g \in Mergers : MergeRLock(g)
  \/ \E g \in Mergers : MergeReturn(g)

\* Every goroutine gets to run, and a lock that keeps becoming free is
\* eventually obtained.
MergeScheduling ==
  \A g \in Mergers :
    /\ SF_vars(MergeLock(g))
    /\ SF_vars(MergeLocked(g))
    /\ SF_vars(MergeRLock(g))
    /\ WF_vars(MergeReturn(g))

SpecMergeLocks == InitMergeLocks /\ [][NextMergeLocks]_vars /\ MergeScheduling

\* ======================= Devices as Go values ===================================
\* An ip slice, a sources map, an extraData map, an openPorts map and a port list
\* are cells of memory; a Device, and a caller holding getter results, hold
\* references to cells (0: nil).  heap.ips, sets, maps, pmaps and lists are the
\* cells by kind; a cell of pmaps maps a protocol to the reference of its list.
xHeap == <<evars, dvars, calc, ps, fan, sc>>

NilRefs == [ip |-> 0, sources |-> 0, extraData |-> 0, openPorts |-> 0]

IPAt(h, r) == IF r = 0 THEN 0 ELSE h.ips[r]
SetAt(h, r) == IF r = 0 THEN {} ELSE h.sets[r]
MapAt(h, r) == IF r = 0 THEN EmptyMap ELSE h.maps[r]
PortsAt(h, r) ==
  IF r = 0 THEN EmptyMap ELSE [pr \in DOMAIN h.pmaps[r] |-> h.lists[h.pmaps[r][pr]]]

\* What the getters of a Device, or the holder of getter results, can see.
View(h, refs) ==
  [ip |-> IPAt(h, refs.ip), sources |-> SetAt(h, refs.sources),
   extraData |-> MapAt(h, refs.extraData), openPorts |-> PortsAt(h, refs.openPorts)]

\* append(net.IP(nil), ip...): a new slice, nil if there is nothing to copy
WithIP(h, v) == IF v = 0 THEN h ELSE [h EXCEPT !.ips = Append(@, v)]
NewIPRef(h, v) == IF v = 0 THEN 0 ELSE Len(h.ips) + 1

\* make(map...) and a loop that stores every entry
WithSet(h, v) == [h EXCEPT !.sets = Append(@, v)]
WithMap(h, v) == [h EXCEPT !.maps = Append(@, v)]

\* An enumeration of the keys of a map (the order of a range loop).
Slot(P) == CHOOSE f \in [P -> 1..Cardinality(P)] : \A p \in P, q \in P : p # q => f[p] # f[q]

\* make(map[string][]int) and, per protocol, m[k] = append([]int(nil), v...)
\* for the lists of content.
WithPorts(h, content) ==
  LET P == DOMAIN content
      slot == Slot(P)
      base == Len(h.lists)
      copies == [i \in 1..Cardinality(P) |-> content[CHOOSE pr \in P : slot[pr] = i]]
  IN  [h EXCEPT !.lists = @ \o copies,
                !.pmaps = Append(@, [pr \in P |-> base + slot[pr]])]

\* (mutant) m[k] = v: the new map holds the lists of the old one.
CopyPortsSharingLists(h, old) ==
  [h EXCEPT !.pmaps = Append(@, IF old = 0 THEN EmptyMap ELSE h.pmaps[old])]

\* The loop that copies the open ports of a Device, in Copy and in OpenPorts.
CopyPorts(h, old) == WithPorts(h, PortsAt(h, old))

\* A call has been made by or on side: heap.n counts, heap.side and heap.op name it.
Did(h, side, op) == [h EXCEPT !.n = heap.n + 1, !.side = side, !.op = op]

Exists(x) == heap.obj[x].sources # 0

\* b := a.Copy()
Copy ==
  /\ heap.n < MaxHeapCalls
  /\ ~Exists("b")
  /\ LET d == heap.obj["a"]
         h1 == WithIP(heap, IPAt(heap, d.ip))
         h2 == WithSet(h1, SetAt(heap, d.sources))
         h3 == WithMap(h2, MapAt(heap, d.extraData))
         h4 == CopyPorts(h3, d.openPorts)
         newD == [ip |-> NewIPRef(heap, IPAt(heap, d.ip)),
                  sources |-> Len(heap.sets) + 1,
                  extraData |-> Len(heap.maps) + 1,
                  openPorts |-> Len(heap.pmaps) + 1]
     IN  heap' = Did([h4 EXCEPT !.obj["b"] = newD], "b", "Copy")
  /\ UNCHANGED xHeap

\* d.IP(), d.Sources(), d.ExtraData(), d.OpenPorts(): the caller keeps the result
GetIP(x) ==
  /\ heap.n < MaxHeapCalls
  /\ Exists(x)
  /\ LET v == IPAt(heap, heap.obj[x].ip)
     IN  heap' = Did([WithIP(heap, v) EXCEPT !.ret.ip = NewIPRef(heap, v)], "ret", "IP")
  /\ UNCHANGED xHeap

GetSources(x) ==
  /\ heap.n < MaxHeapCalls
  /\ Exists(x)
  /\ heap' = Did([WithSet(heap, SetAt(heap, heap.obj[x].sources))
                    EXCEPT !.ret.sources = Len(heap.sets) + 1], "ret", "Sources")
  /\ UNCHANGED xHeap

GetExtraData(x) ==
  /\ heap.n < MaxHeapCalls
  /\ Exists(x)
  /\ heap' = Did([WithMap(heap, MapAt(heap, heap.obj[x].extraData))
                    EXCEPT !.ret.extraData = Len(heap.maps) + 1], "ret", "ExtraData")
  /\ UNCHANGED xHeap

GetOpenPorts(x) ==
  /\ heap.n < MaxHeapCalls
  /\ Exists(x)
  /\ heap' = Did([CopyPorts(heap, heap.obj[x].openPorts)
                    EXCEPT !.ret.openPorts = Len(heap.pmaps) + 1], "ret", "OpenPorts")
  /\ UNCHANGED xHeap

\* The argument of a setter: a value the caller builds, or a container the caller
\* got from a getter and still holds.
HeapIPs == {0, 1, 2}
HeapSources == {{}, {"arp"}, {"mdns"}}
HeapExtra == {EmptyMap, [k \in ExtraKeys |-> "v"], [k \in ExtraKeys |-> "w"]}
HeapPorts == {EmptyMap, [pr \in Protocols |-> <<80>>], [pr \in Protocols |-> <<443>>]}

SetIP(x, ip) ==
  /\ heap.n < MaxHeapCalls
  /\ Exists(x)
  /\ heap' = Did([WithIP(heap, ip) EXCEPT !.obj[x].ip = NewIPRef(heap, ip)], x, "SetIP")
  /\ UNCHANGED xHeap

SetSources(x, sources) ==
  /\ heap.n < MaxHeapCalls
  /\ Exists(x)
  /\ heap' = Did([WithSet(heap, sources) EXCEPT !.obj[x].sources = Len(heap.sets) + 1],
                 x, "SetSources")
  /\ UNCHANGED xHeap

SetExtraData(x, data) ==
  /\ heap.n < MaxHeapCalls
  /\ Exists(x)
  /\ heap' = Did([WithMap(heap, data) EXCEPT !.obj[x].extraData = Len(heap.maps) + 1],
                 x, "SetExtraData")
  /\ UNCHANGED xHeap

HeapSetOpenPorts(x, ports) ==
  /\ heap.n < MaxHeapCalls
  /\ Exists(x)
  /\ heap' = Did([WithPorts(heap, ports) EXCEPT !.obj[x].openPorts = Len(heap.pmaps) + 1],
                 x, "SetOpenPorts")
  /\ UNCHANGED xHeap

\* a setter called with what a getter returned
SetFromResult(x) ==
  LET r == View(heap, heap.ret)
  IN  \/ heap.ret.ip # 0 /\ SetIP(x, r.ip)
      \/ heap.ret.sources # 0 /\ SetSources(x, r.sources)
      \/ heap.ret.extraData # 0 /\ SetExtraData(x, r.extraData)
      \/ heap.ret.openPorts # 0 /\ HeapSetOpenPorts(x, r.openPorts)

\* d.sources[name] = struct{}{} and d.extraData[key] = value: writes to the
\* Device's own map (sources and extraData of a Device are never nil here)
HeapAddSource(x, name) ==
  /\ heap.n < MaxHeapCalls
  /\ Exists(x)
  /\ heap' = Did([heap EXCEPT !.sets[heap.obj[x].sources] = @ \cup {name}], x, "AddSource")
  /\ UNCHANGED xHeap

AddExtraData(x, key, value) ==
  /\ heap.n < MaxHeapCalls
  /\ Exists(x)
  /\ heap' = Did([heap EXCEPT !.maps[heap.obj[x].extraData] =
                     [k \in DOMAIN @ \cup {key} |-> IF k = key THEN value ELSE @[k]]],
                 x, "AddExtraData")
  /\ UNCHANGED xHeap

\* x.Merge(y): d.ip = other.ip stores the operand's slice itself; sources and
\* extra data are written into d's maps; a protocol d lacks gets a new list with
\* the operand's ports, a protocol d has gets its list appended to.
HeapMerge(x, y) ==
  /\ heap.n < MaxHeapCalls
  /\ x # y /\ Exists(x) /\ Exists(y)
  /\ LET d == heap.obj[x]
         other == heap.obj[y]
         ipRef == IF d.ip = 0 /\ other.ip # 0 THEN other.ip ELSE d.ip
         dData == heap.maps[d.extraData]
         oData == MapAt(heap, other.extraData)
         dPorts == heap.pmaps[d.openPorts]
         oPorts == PortsAt(heap, other.openPorts)
         fresh == DOMAIN oPorts \ DOMAIN dPorts
         slot == Slot(fresh)
         base == Len(heap.lists)
         copies == [i \in 1..Cardinality(fresh) |-> oPorts[CHOOSE pr \in fresh : slot[pr] = i]]
         h1 == [heap EXCEPT
                  !.obj[x].ip = ipRef,
                  !.sets[d.sources] = @ \cup SetAt(heap, other.sources),
                  !.maps[d.extraData] =
                     [k \in DOMAIN dData \cup DOMAIN oData |->
                        IF k \in DOMAIN dData THEN dData[k] ELSE oData[k]],
                  !.lists = [i \in 1..Len(@) |->
                               IF \E pr \in DOMAIN dPorts \cap DOMAIN oPorts : dPorts[pr] = i
                               THEN AppendNewPorts(@[i],
                                      oPorts[CHOOSE pr \in DOMAIN dPorts \cap DOMAIN oPorts :
                                                dPorts[pr] = i])
                               ELSE @[i]] \o copies,
                  !.pmaps[d.openPorts] =
                     [pr \in DOMAIN dPorts \cup fresh |->
                        IF pr \in fresh THEN base + slot[pr] ELSE dPorts[pr]]]
     IN  heap' = Did(h1, x, "Merge")
  /\ UNCHANGED xHeap

\* The caller writes to what a getter returned: ip[0] = v, delete(sources, name)
\* or sources[name] = struct{}{}, data[key] = value, ports[pr][0] = p.
WriteResult ==
  /\ heap.n < MaxHeapCalls
  /\ \/ /\ heap.ret.ip # 0
        /\ \E v \in IPs : heap' = Did([heap EXCEPT !.ips[heap.ret.ip] = v], "ret", "write")
     \/ /\ heap.ret.sources # 0
        /\ \E name \in Sources :
             heap' = Did([heap EXCEPT !.sets[heap.ret.sources] =
                            IF name \in @ THEN @ \ {name} ELSE @ \cup {name}], "ret", "write")
     \/ /\ heap.ret.extraData # 0
        /\ \E key \in ExtraKeys, value \in ExtraValues :
             heap' = Did([heap EXCEPT !.maps[heap.ret.extraData] =
                            [k \in DOMAIN @ \cup {key} |-> IF k = key THEN value ELSE @[k]]],
                         "ret", "write")
     \/ /\ heap.ret.openPorts # 0
        /\ \E pr \in DOMAIN heap.pmaps[heap.ret.openPorts], p \in Ports :
             /\ Len(heap.lists[heap.pmaps[heap.ret.openPorts][pr]]) > 0
             /\ heap' = Did([heap EXCEPT !.lists[heap.pmaps[heap.ret.openPorts][pr]][1] = p],
                            "ret", "write")
  /\ UNCHANGED xHeap

\* ---- a Device a that was filled in any way, its Copy b, and a caller that keeps
\* ---- what the getters return
InitCopy ==
  /\ NoEngine /\ NoDeviceCalls
  /\ calc = NoCalc /\ ps = NoStream /\ fan = NoFanIn /\ sc = NoScanner
  /\ \E ip \in {0, 1}, sources \in HeapSources, data \in HeapExtra, ports \in HeapPorts :
       LET h0 == [ips |-> <<>>, sets |-> <<sources>>, maps |-> <<data>>,
                  pmaps |-> <<>>, lists |-> <<>>,
                  obj |-> [x \in DeviceNames |-> NilRefs], ret |-> NilRefs,
                  n |-> 0, side |-> "a", op |-> "NewDevice"]
           h1 == WithPorts(WithIP(h0, ip), ports)
       IN  heap = [h1 EXCEPT !.obj["a"] = [ip |-> NewIPRef(h0, ip), sources |-> 1,
                                          extraData |-> 1, openPorts |-> 1]]

NextCopy ==
  \/ Copy
  \/ \E x \in DeviceNames :
       \/ GetIP(x)
       \/ GetSources(x)
       \/ GetExtraData(x)
       \/ GetOpenPorts(x)
       \/ \E ip \in HeapIPs : SetIP(x, ip)
       \/ \E sources \in HeapSources : SetSources(x, sources)
       \/ \E data \in HeapExtra : SetExtraData(x, data)
       \/ \E ports \in HeapPorts : HeapSetOpenPorts(x, ports)
       \/ SetFromResult(x)
       \/ \E name \in Sources : HeapAddSource(x, name)
       \/ \E key \in ExtraKeys, value \in ExtraValues : AddExtraData(x, key, value)
       \/ \E y \in DeviceNames : HeapMerge(x, y)
  \/ WriteResult

SpecCopy == InitCopy /\ [][NextCopy]_vars

\* ======================= NewEngine and its options ==============================
\* An option is a record: WithScanners with the number of scanners passed,
\* WithSweeper and WithInterface with what is passed (0: nil), WithScanTimeout
\* with the duration.
MaxOpts == 3           \* options passed to one NewEngine call
xCalc == <<evars, dvars, heap, ps, fan, sc>>

Options ==
  [opt : {"WithScanners"}, arg : {0, 1, 2}] \cup [opt : {"WithSweeper"}, arg : {0, 1}]
  \cup [opt : {"WithInterface"}, arg : {0, 1}] \cup [opt : {"WithScanTimeout"}, arg : {0, 1}]

\* e := &Engine{...}: no scanners, no sweeper, no interface
ZeroEngine == [scanners |-> 0, sweeper |-> 0, Iface |-> 0]

WithScanners(e, n) ==
  IF n = 0 THEN [e |-> e, err |-> "at least one scanner required"]
  ELSE [e |-> [e EXCEPT !.scanners = n], err |-> "nil"]

WithSweeper(e, sweeper) == [e |-> [e EXCEPT !.sweeper = sweeper], err |-> "nil"]

WithInterface(e, iface) ==
  IF iface = 0 THEN [e |-> e, err |-> "interface cannot be nil"]
  ELSE [e |-> [e EXCEPT !.Iface = iface], err |-> "nil"]

WithScanTimeout(e, timeout) ==
  [e |-> e, err |-> IF timeout <= 0 THEN "timeout must be positive" ELSE "nil"]

ApplyOption(e, o) ==
  CASE o.opt = "WithScanners" -> WithScanners(e, o.arg)
    [] o.opt = "WithSweeper" -> WithSweeper(e, o.arg)
    [] o.opt = "WithInterface" -> WithInterface(e, o.arg)
    [] o.opt = "WithScanTimeout" -> WithScanTimeout(e, o.arg)

\* The caller lists one more option.
PassOption(o) ==
  /\ calc.f = "NewEngine" /\ calc.pc = "args"
  /\ Len(calc.opts) < MaxOpts
  /\ calc' = [calc EXCEPT !.opts = Append(@, o)]
  /\ UNCHANGED xCalc

\* for _, opt := range opts { if err := opt(e); err != nil { return nil, err } }
NewEngineOption ==
  /\ calc.f = "NewEngine" /\ calc.pc \in {"args", "opts"}
  /\ calc.i < Len(calc.opts)
  /\ LET r == ApplyOption(calc.e, calc.opts[calc.i + 1])
     IN  calc' = [calc EXCEPT !.pc = IF r.err = "nil" THEN "opts" ELSE "done",
                             !.i = @ + 1, !.e = r.e, !.err = r.err]
  /\ UNCHANGED xCalc

\* The checks after the loop, and the return.
NewEngineReturn ==
  /\ calc.f = "NewEngine" /\ calc.pc \in {"args", "opts"}
  /\ calc.i = Len(calc.opts)
  /\ calc' = [calc EXCEPT !.pc = "done",
                          !.err = IF calc.e.scanners = 0 /\ calc.e.sweeper = 0
                                  THEN "ErrNoScannersOrSweeper"
                                  ELSE IF calc.e.Iface = 0 THEN "ErrNoInterface" ELSE "nil"]
  /\ UNCHANGED xCalc

InitNewEngine ==
  /\ NoEngine /\ NoDeviceCalls
  /\ heap = NoHeap /\ ps = NoStream /\ fan = NoFanIn /\ sc = NoScanner
  /\ calc = [f |-> "NewEngine", pc |-> "args", opts |-> <<>>, i |-> 0, e |-> ZeroEngine,
             err |-> "none"]

NextNewEngine ==
  \/ \E o \in Options : PassOption(o)
  \/ NewEngineOption
  \/ NewEngineReturn

SpecNewEngine == InitNewEngine /\ [][NextNewEngine]_vars

\* ======================= PortScanner.Stream (port_scanner.go) ===================
\* ps.ports lists, per entry of ports, what the target does with a connection to
\* that port: "refused" (DialContext returns an error), "open" (the connection is
\* made and Close returns nil), "closeErr" (the connection is made and Close
\* returns an error).  Channels carry the index of the entry.
MaxStreamPorts == 3    \* entries of ports in one Stream call
WorkerCounts == {1, 2}
StreamWorkers == {1, 2}
Outcomes == {"refused", "open", "closeErr"}
xStream == <<evars, dvars, heap, calc, fan, sc>>

StreamInputs ==
  UNION {[1..n -> Outcomes] : n \in 0..MaxStreamPorts}

StreamRunning == ps.pc = "recv" /\ ~ps.panicked

\* Stream up to the receive from errChan: the channels, the workers, the goroutine
\* that feeds portChan and the one that waits for the workers.
Stream ==
  /\ ps.pc = "call"
  /\ ps' = IF Len(ps.ports) = 0
           THEN [ps EXCEPT !.pc = "done", !.ret = "nil"]
           ELSE [ps EXCEPT !.pc = "recv",
                           !.wg = ps.workers,
                           !.worker = [w \in StreamWorkers |->
                                         [pc |-> IF w <= ps.workers THEN "select" ELSE "none",
                                          port |-> 0]],
                           !.feeder = [pc |-> "loop", i |-> 1],
                           !.waiter = "wait"]
  /\ UNCHANGED xStream

\* The caller's context is cancelled while Stream runs.
StreamCancel ==
  /\ StreamRunning
  /\ ~ps.cancelled
  /\ ps' = [ps EXCEPT !.cancelled = TRUE,
                      !.midRun = \E i \in 1..Len(ps.ports) : ps.probed[i] = 0]
  /\ UNCHANGED xStream

\* case portChan <- port
FeederSend ==
  /\ ~ps.panicked
  /\ ps.feeder.pc = "loop" /\ ps.feeder.i <= Len(ps.ports)
  /\ Len(ps.portChan) < ps.workers
  /\ ps' = [ps EXCEPT !.portChan = Append(@, ps.feeder.i), !.feeder.i = @ + 1]
  /\ UNCHANGED xStream

\* case <-ctx.Done(): errChan <- ctx.Err(); return, and the deferred
\* close(portChan).  A send on a closed channel panics.
FeederCancelled ==
  /\ ~ps.panicked
  /\ ps.feeder.pc = "loop" /\ ps.feeder.i <= Len(ps.ports)
  /\ ps.cancelled
  /\ ps.errClosed \/ Len(ps.errChan) < 1
  /\ ps' = IF ps.errClosed
           THEN [ps EXCEPT !.panicked = TRUE, !.feeder.pc = "done", !.portClosed = TRUE]
           ELSE [ps EXCEPT !.errChan = Append(@, "ctx"), !.feeder.pc = "done",
                           !.portClosed = TRUE]
  /\ UNCHANGED xStream

\* the loop over ports has ended: the deferred close(portChan)
FeederReturn ==
  /\ ~ps.panicked
  /\ ps.feeder.pc = "loop" /\ ps.feeder.i > Len(ps.ports)
  /\ ps' = [ps EXCEPT !.feeder.pc = "done", !.portClosed = TRUE]
  /\ UNCHANGED xStream

\* streamWorker: case <-ctx.Done(): return, then wg.Done()
WorkerCancelled(w) ==
  /\ ~ps.panicked
  /\ ps.worker[w].pc = "select"
  /\ ps.cancelled
  /\ ps' = [ps EXCEPT !.worker[w].pc = "done", !.wg = @ - 1]
  /\ UNCHANGED xStream

\* streamWorker: case port, ok := <-ports with ok
WorkerReceive(w) ==
  /\ ~ps.panicked
  /\ ps.worker[w].pc = "select"
  /\ ps.portChan # <<>>
  /\ ps' = [ps EXCEPT !.worker[w] = [pc |-> "probe", port |-> Head(ps.portChan)],
                      !.portChan = Tail(@)]
  /\ UNCHANGED xStream

\* streamWorker: case port, ok := <-ports with !ok: return, then wg.Done()
WorkerClosed(w) ==
  /\ ~ps.panicked
  /\ ps.worker[w].pc = "select"
  /\ ps.portChan = <<>> /\ ps.portClosed
  /\ ps' = [ps EXCEPT !.worker[w].pc = "done", !.wg = @ - 1]
  /\ UNCHANGED xStream

\* (mutant) the callback is invoked for every port that was dialled
isPortOpenAlways(outcome, dialled) == TRUE

\* isPortOpen: DialContext under the caller's context, then err = conn.Close()
\* and return err == nil.  dialled: DialContext made the connection.
isPortOpen(outcome, dialled) == dialled /\ outcome = "open"

\* streamWorker: if ps.isPortOpen(...) { callback(port) }.  Under a cancelled
\* context DialContext may still return an error for a port that accepts.
WorkerProbe(w) ==
  /\ ~ps.panicked
  /\ ps.worker[w].pc = "probe"
  /\ LET i == ps.worker[w].port
     IN  \E dialled \in BOOLEAN :
           /\ dialled = (ps.ports[i] # "refused") \/ (ps.cancelled /\ ~dialled)
           /\ ps' = [ps EXCEPT !.worker[w] = [pc |-> "select", port |-> 0],
                               !.probed[i] = @ + 1,
                               !.dialled[i] = dialled,
                               !.calls[i] = IF isPortOpen(ps.ports[i], dialled)
                                            THEN @ + 1 ELSE @]
  /\ UNCHANGED xStream

\* wg.Wait(); close(errChan)
WaiterClose ==
  /\ ~ps.panicked
  /\ ps.waiter = "wait"
  /\ ps.wg = 0
  /\ ps' = [ps EXCEPT !.waiter = "done", !.errClosed = TRUE]
  /\ UNCHANGED xStream

\* if err := <-errChan; err != nil { return err }; return ctx.Err()
StreamReturn ==
  /\ StreamRunning
  /\ ps.errChan # <<>> \/ ps.errClosed
  /\ ps' = [ps EXCEPT !.pc = "done",
                      !.errChan = IF @ = <<>> THEN @ ELSE Tail(@),
                      !.ret = IF ps.errChan # <<>> THEN Head(ps.errChan)
                              ELSE IF ps.cancelled THEN "ctx" ELSE "nil"]
  /\ UNCHANGED xStream

InitStream ==
  /\ NoEngine /\ NoDeviceCalls
  /\ heap = NoHeap /\ calc = NoCalc /\ fan = NoFanIn /\ sc = NoScanner
  /\ \E ports \in StreamInputs, workers \in WorkerCounts :
       ps = [pc |-> "call", ports |-> ports, workers |-> workers,
             cancelled |-> FALSE, midRun |-> FALSE, panicked |-> FALSE,
             portChan |-> <<>>, portClosed |-> FALSE,
             errChan |-> <<>>, errClosed |-> FALSE,
             wg |-> 0,
             worker |-> [w \in StreamWorkers |-> [pc |-> "none", port |-> 0]],
             feeder |-> [pc |-> "none", i |-> 0],
             waiter |-> "none",
             probed |-> [i \in 1..Len(ports) |-> 0],
             dialled |-> [i \in 1..Len(ports) |-> FALSE],
             calls |-> [i \in 1..Len(ports) |-> 0],
             ret |-> "none"]

NextStream ==
  \/ Stream
  \/ StreamCancel
  \/ FeederSend
  \/ FeederCancelled
  \/ FeederReturn
  \/ \E w \in StreamWorkers :
       \/ WorkerCancelled(w)
       \/ WorkerReceive(w)
       \/ WorkerClosed(w)
       \/ WorkerProbe(w)
  \/ WaiterClose
  \/ StreamReturn

SpecStream == InitStream /\ [][NextStream]_vars

\* ======================= the OUI registry (registry.go) =========================
\* A string is a sequence of one-character strings.  An address is its 12 hex
\* digits as numbers; the first six vary over HexDigits, the last six over Tails.
HexDigits == {0, 11}
Tails == {<<0, 0, 0, 0, 0, 0>>, <<10, 11, 0, 10, 11, 0>>}
Addresses == {p \o t : p \in [1..6 -> HexDigits], t \in Tails}
Styles == {"colon", "dash", "dot", "none"}
Cases == {"lower", "upper", "mixed"}
xLookup == <<evars, dvars, heap, ps, fan, sc>>

HexChar(n, upper) ==
  CASE n = 0 -> "0"
    [] n = 10 -> IF upper THEN "A" ELSE "a"
    [] n = 11 -> IF upper THEN "B" ELSE "b"

\* The text of an address: two-digit groups joined by ":" or "-", four-digit groups
\* joined by ".", or no separator; letters in lower, upper or alternating case.
RECURSIVE Join(_, _, _)
Join(digits, group, sep) ==
  IF Len(digits) <= group THEN digits
  ELSE SubSeq(digits, 1, group) \o <<sep>> \o Join(SubSeq(digits, group + 1, Len(digits)), group, sep)

Represent(addr, style, case) ==
  LET digits == [i \in 1..Len(addr) |->
                   HexChar(addr[i], case = "upper" \/ (case = "mixed" /\ i % 2 = 1))]
  IN  CASE style = "colon" -> Join(digits, 2, ":")
        [] style = "dash" -> Join(digits, 2, "-")
        [] style = "dot" -> Join(digits, 4, ".")
        [] style = "none" -> digits

\* strings.ToUpper and strings.ReplaceAll(s, sep, "")
ToUpper(s) ==
  [i \in 1..Len(s) |-> CASE s[i] = "a" -> "A" [] s[i] = "b" -> "B" [] OTHER -> s[i]]

RECURSIVE ReplaceAll(_, _)
ReplaceAll(s, sep) ==
  IF s = <<>> THEN <<>>
  ELSE IF Head(s) = sep THEN ReplaceAll(Tail(s), sep)
  ELSE <<Head(s)>> \o ReplaceAll(Tail(s), sep)

\* (mutant) the dots stay in the string
normalizeKeepingDots(s) ==
  LET t == ReplaceAll(ReplaceAll(ToUpper(s), "-"), ":")
  IN  IF Len(t) < 6 THEN <<>> ELSE SubSeq(t, 1, 6)

normalizeMACPrefix(s) ==
  LET t == ReplaceAll(ReplaceAll(ReplaceAll(ToUpper(s), "-"), ":"), ".")
  IN  IF Len(t) < 6 THEN <<>> ELSE SubSeq(t, 1, 6)

\* reg.prefixMap as the loader builds it: the MAC field of a row, normalised,
\* mapped to the organisation of the first row with that prefix.
Rows == {[mac |-> <<"0", "0", "-", "0", "0", "-", "0", "B">>, org |-> "Acme"],
         [mac |-> <<"b", "b", "0", "0", "B", "B">>, org |-> "Bolt"]}
prefixMap ==
  [p \in {normalizeMACPrefix(r.mac) : r \in Rows} |->
     (CHOOSE r \in Rows : normalizeMACPrefix(r.mac) = p).org]

Lookup(mac) ==
  LET prefix == normalizeMACPrefix(mac)
  IN  IF prefix = <<>> THEN [org |-> "", found |-> FALSE]
      ELSE IF prefix \notin DOMAIN prefixMap THEN [org |-> "", found |-> FALSE]
      ELSE [org |-> prefixMap[prefix], found |-> TRUE]

\* The caller writes an address in some style and case, possibly cut short.
WriteMAC(style, case, m) ==
  /\ calc.f = "Lookup" /\ calc.pc = "addr"
  /\ LET text == Represent(calc.addr, style, case)
     IN  /\ m <= Len(text)
         /\ calc' = [calc EXCEPT !.pc = "text", !.mac = SubSeq(text, 1, m),
                                 !.whole = m = Len(text)]
  /\ UNCHANGED xLookup

LookupCall ==
  /\ calc.f = "Lookup" /\ calc.pc = "text"
  /\ calc' = [calc EXCEPT !.pc = "done", !.prefix = normalizeMACPrefix(calc.mac),
                          !.res = Lookup(calc.mac)]
  /\ UNCHANGED xLookup

InitLookup ==
  /\ NoEngine /\ NoDeviceCalls
  /\ heap = NoHeap /\ ps = NoStream /\ fan = NoFanIn /\ sc = NoScanner
  /\ \E addr \in Addresses :
       calc = [f |-> "Lookup", pc |-> "addr", addr |-> addr, mac |-> <<>>, whole |-> FALSE,
               prefix |-> <<>>, res |-> [org |-> "", found |-> FALSE]]

NextLookup ==
  \/ \E style \in Styles, case \in Cases :
       \E m \in 0..Len(Represent(calc.addr, style, case)) : WriteMAC(style, case, m)
  \/ LookupCall

SpecLookup == InitLookup /\ [][NextLookup]_vars

\* ======================= processDevice, field by field ==========================
\* The merge map of one scan as a function from keys to Devices, and the
\* observations as Devices with all their fields.  An IP is nil (0), an empty
\* slice, or the 4-byte or the 16-byte form of an address.
MaxProcessed == 3      \* observations processed in one scan
EmptyIP == 9
ObservedIPs == {0, EmptyIP, 1, 11}
ObservedMACs == {"", "x", "y"}
ObservedManufacturers == {"", "y"}
xProcess == <<evars, dvars, heap, ps, fan, sc>>

\* net.IP.String: "<nil>" for a slice of length 0, dotted decimal for both forms
\* of an IPv4 address.
IPString(ip) ==
  CASE ip \in {0, EmptyIP} -> "<nil>"
    [] ip \in {1, 11} -> "10.0.0.1"
    [] ip \in {2, 12} -> "10.0.0.2"

\* Device.IP(): nil for a nil ip, else append(net.IP(nil), d.ip...), which is nil
\* for an empty slice.
DeviceIP(d) == IF d.ip \in {0, EmptyIP} THEN 0 ELSE d.ip

\* The text of a Device's mac.
MACText(mac) ==
  CASE mac = "" -> <<>>
    [] mac = "x" -> Represent(<<0, 0, 0, 0, 0, 11>> \o <<0, 0, 0, 0, 0, 0>>, "colon", "lower")
    [] mac = "y" -> Represent(<<11, 0, 0, 0, 0, 11>> \o <<0, 0, 0, 0, 0, 0>>, "colon", "lower")

\* (mutant) the OUI value replaces a manufacturer the Device already has
fillManufacturerAlways(registry, d) ==
  IF ~registry \/ d.mac = "" THEN d
  ELSE IF Lookup(MACText(d.mac)).found
       THEN [d EXCEPT !.manufacturer = Lookup(MACText(d.mac)).org] ELSE d

\* fillManufacturer; registry: e.ouiRegistry != nil
fillManufacturer(registry, d) ==
  IF ~registry \/ d.manufacturer # "" \/ d.mac = "" THEN d
  ELSE IF Lookup(MACText(d.mac)).found
       THEN [d EXCEPT !.manufacturer = Lookup(MACText(d.mac)).org] ELSE d

\* (mutant) an observation without an IP is stored like any other
processFieldsWithoutIPCheck(c, ptr, d) ==
  IF ~ptr THEN c
  ELSE LET key == IPString(DeviceIP(d))
           found == key \in DOMAIN c.devices
           canon == IF found THEN fillManufacturer(c.registry, Merge(c.devices[key], d))
                    ELSE fillManufacturer(c.registry, d)
       IN  [c EXCEPT !.devices = [k \in DOMAIN @ \cup {key} |-> IF k = key THEN canon ELSE @[k]],
                     !.emitted = Append(@, canon)]

\* processDevice on the scan's map c.devices: the new map and the Devices passed
\* to emit.  ptr: the observation is not a nil pointer.
processFields(c, ptr, d) ==
  IF ~ptr THEN c
  ELSE IF DeviceIP(d) = 0 THEN c
  ELSE LET key == IPString(DeviceIP(d))
           found == key \in DOMAIN c.devices
           canon == IF found THEN fillManufacturer(c.registry, Merge(c.devices[key], d))
                    ELSE fillManufacturer(c.registry,
                           IF d.firstSeen = 0 THEN [d EXCEPT !.firstSeen = 1] ELSE d)
       IN  IF key = "" THEN c
           ELSE [c EXCEPT !.devices = [k \in DOMAIN @ \cup {key} |->
                                         IF k = key THEN canon ELSE @[k]],
                          !.emitted = Append(@, canon)]

\* for device := range scannerOut { e.processDevice(device, devices) }
ProcessObservation(ptr, d) ==
  /\ calc.f = "processDevice" /\ calc.pc = "range"
  /\ Len(calc.obs) < MaxProcessed
  /\ calc' = [processFields(calc, ptr, d) EXCEPT !.obs = Append(@, [ptr |-> ptr, d |-> d])]
  /\ UNCHANGED xProcess

\* scannerOut is closed: stats.DeviceCount = len(devices)
ProcessingDone ==
  /\ calc.f = "processDevice" /\ calc.pc = "range"
  /\ calc' = [calc EXCEPT !.pc = "done", !.count = Cardinality(DOMAIN calc.devices)]
  /\ UNCHANGED xProcess

\* What scanners send: a nil pointer, or a Device made by NewDevice whose mac and
\* manufacturer were set.
Observations ==
  {[NewDevice(ip, 1) EXCEPT !.mac = m, !.manufacturer = f] :
     ip \in ObservedIPs, m \in ObservedMACs, f \in ObservedManufacturers}

InitProcess ==
  /\ NoEngine /\ NoDeviceCalls
  /\ heap = NoHeap /\ ps = NoStream /\ fan = NoFanIn /\ sc = NoScanner
  /\ \E registry \in BOOLEAN :
       calc = [f |-> "processDevice", pc |-> "range", registry |-> registry,
               devices |-> [k \in {} |-> ZeroDevice], emitted |-> <<>>, obs |-> <<>>,
               count |-> 0]

NextProcess ==
  \/ ProcessObservation(FALSE, ZeroDevice)
  \/ \E d \in Observations : ProcessObservation(TRUE, d)
  \/ ProcessingDone

SpecProcess == InitProcess /\ [][NextProcess]_vars

\* ======================= the fan-in channel of a scan ===========================
\* scannerOut between the scanners and the range loop of performScan.  The arp
\* scanner sends with a blocking select, ssdp and mdns with select/default.
maxDevices == 0        \* Engine.maxDevices: no option and no constructor sets it
MaxOffers == 2         \* observations one scanner offers in one scan
FanScanners == {"arp", "mdns", "ssdp"}
NonBlocking == {"mdns", "ssdp"}
xFan == <<evars, dvars, heap, calc, ps, sc>>

\* scannerOut := make(chan *Device, e.maxDevices), and the scanner goroutines
MakeScannerOut ==
  /\ fan.pc = "call"
  /\ fan' = [fan EXCEPT !.pc = "recv", !.cap = maxDevices,
                        !.running = FanScanners]
  /\ UNCHANGED xFan

\* out <- d can proceed: the range loop waits to receive, or there is room in the
\* buffer.
CanSend == fan.pc = "recv" \/ Len(fan.buf) < fan.cap

Sent(d) ==
  IF fan.pc # "recv"
    THEN [fan EXCEPT !.buf = Append(@, d), !.sent[d[1]] = @ + 1]
    ELSE [fan EXCEPT !.pc = "busy", !.cur = d, !.sent[d[1]] = @ + 1]

\* arp: select { case <-ctx.Done(): ...; case out <- dd: }
BlockingSend(k) ==
  /\ k \in fan.running /\ k \notin NonBlocking
  /\ fan.sent[k] < MaxOffers
  /\ CanSend
  /\ fan' = Sent(<<k, fan.sent[k] + 1>>)
  /\ UNCHANGED xFan

\* ssdp, mdns: select { case out <- d: default: }
NonBlockingSend(k) ==
  /\ k \in fan.running /\ k \in NonBlocking
  /\ fan.sent[k] < MaxOffers
  /\ LET d == <<k, fan.sent[k] + 1>>
     IN  fan' = IF CanSend THEN Sent(d)
                ELSE [fan EXCEPT !.sent[k] = @ + 1,
                                 !.dropped = @ \cup {[d |-> d, pending |-> Len(fan.buf),
                                                      busy |-> fan.pc = "busy"]}]
  /\ UNCHANGED xFan

\* e.processDevice(device, devices) has returned; the range loop takes the next
\* observation of the buffer, or waits to receive if there is none.
FanProcessed ==
  /\ fan.pc = "busy"
  /\ fan' = IF fan.buf # <<>>
            THEN [fan EXCEPT !.processed = @ \cup {fan.cur}, !.cur = Head(fan.buf),
                             !.buf = Tail(@)]
            ELSE [fan EXCEPT !.pc = "recv", !.processed = @ \cup {fan.cur}, !.cur = <<>>]
  /\ UNCHANGED xFan

\* s.Scan returns; scannerWg.Done()
FanScannerReturn(k) ==
  /\ k \in fan.running
  /\ fan' = [fan EXCEPT !.running = @ \ {k}]
  /\ UNCHANGED xFan

\* scannerWg.Wait(); close(scannerOut); the range loop ends on the closed, empty
\* channel.
FanClosed ==
  /\ fan.pc = "recv"
  /\ fan.running = {} /\ fan.buf = <<>>
  /\ fan' = [fan EXCEPT !.pc = "done"]
  /\ UNCHANGED xFan

InitFan ==
  /\ NoEngine /\ NoDeviceCalls
  /\ heap = NoHeap /\ calc = NoCalc /\ ps = NoStream /\ sc = NoScanner
  /\ fan = [pc |-> "call", cap |-> 0, buf |-> <<>>, cur |-> <<>>, running |-> {},
            sent |-> [k \in FanScanners |-> 0], dropped |-> {}, processed |-> {}]

NextFan ==
  \/ MakeScannerOut
  \/ \E k \in FanScanners :
       \/ BlockingSend(k)
       \/ NonBlockingSend(k)
       \/ FanScannerReturn(k)
  \/ FanProcessed
  \/ FanClosed

SpecFan == InitFan /\ [][NextFan]_vars

\* ======================= the built-in scanners and cancellation =================
\* One scan with the arp, mdns and ssdp scanners on a clock of its own (sc.t, in
\* units of the 100 ms read deadline of mdns); the scan context has the deadline
\* ScanTimeout and is cancelled when Stop cancels the engine context.
Poll == 1              \* the read deadline of listenForResponses, in ticks
MaxPackets == 2        \* responses that arrive during one scan
BuiltIn == {"arp", "mdns", "ssdp"}
xScanners == <<evars, dvars, heap, calc, ps, fan>>

BuiltInCtxDone == sc.cancelled \/ sc.t >= ScanTimeout

\* performScan starts the scanners; ssdp has sent its search and set the read
\* deadline of its socket to the deadline of the context.
BuiltInStart ==
  /\ sc.pc = "call"
  /\ sc' = [sc EXCEPT !.pc = "scanning",
                      !.at = [k \in BuiltIn |-> IF k = "ssdp" THEN "check" ELSE "select"]]
  /\ UNCHANGED xScanners

\* Stop cancels the engine context during the scan.
BuiltInCancel ==
  /\ sc.pc = "scanning"
  /\ ~BuiltInCtxDone
  /\ sc' = [sc EXCEPT !.cancelled = TRUE, !.cancelAt = sc.t]
  /\ UNCHANGED xScanners

\* ssdp: if ctx.Err() != nil { return ctx.Err() }, else conn.ReadFromUDP(buf)
SSDPCheck ==
  /\ sc.pc = "scanning" /\ sc.at["ssdp"] = "check"
  /\ sc' = [sc EXCEPT !.at["ssdp"] = IF BuiltInCtxDone THEN "done" ELSE "read"]
  /\ UNCHANGED xScanners

\* ssdp: ReadFromUDP returns a response before the read deadline; handlePacket
SSDPPacket ==
  /\ sc.pc = "scanning" /\ sc.at["ssdp"] = "read"
  /\ sc.t < ScanTimeout
  /\ sc.packets < MaxPackets
  /\ sc' = [sc EXCEPT !.at["ssdp"] = "check", !.packets = @ + 1]
  /\ UNCHANGED xScanners

\* ssdp: ReadFromUDP returns a timeout at the read deadline; return nil
SSDPTimeout ==
  /\ sc.pc = "scanning" /\ sc.at["ssdp"] = "read"
  /\ sc.t >= ScanTimeout
  /\ sc' = [sc EXCEPT !.at["ssdp"] = "done"]
  /\ UNCHANGED xScanners

\* mdns: select { case <-ctx.Done(): return nil; default: SetReadDeadline(now +
\* 100 ms); ReadFromUDP }
MDNSSelect ==
  /\ sc.pc = "scanning" /\ sc.at["mdns"] = "select"
  /\ sc' = IF BuiltInCtxDone THEN [sc EXCEPT !.at["mdns"] = "done"]
           ELSE [sc EXCEPT !.at["mdns"] = "read", !.wake = sc.t + Poll]
  /\ UNCHANGED xScanners

\* mdns: ReadFromUDP returns a packet, or a timeout at the read deadline
MDNSRead ==
  /\ sc.pc = "scanning" /\ sc.at["mdns"] = "read"
  /\ \/ sc.t >= sc.wake /\ sc' = [sc EXCEPT !.at["mdns"] = "select"]
     \/ /\ sc.t < sc.wake /\ sc.packets < MaxPackets
        /\ sc' = [sc EXCEPT !.at["mdns"] = "select", !.packets = @ + 1]
  /\ UNCHANGED xScanners

\* arp: select { case <-ctx.Done(): return nil; case <-ticker.C: ... }
ARPReturn ==
  /\ sc.pc = "scanning" /\ sc.at["arp"] = "select"
  /\ BuiltInCtxDone
  /\ sc' = [sc EXCEPT !.at["arp"] = "done"]
  /\ UNCHANGED xScanners

\* The clock moves while every scanner waits: no scanner is at a statement that
\* does not block, and no read deadline has passed.
BuiltInTick ==
  /\ sc.pc = "scanning"
  /\ sc.t < ScanTimeout
  /\ sc.at["ssdp"] # "check"
  /\ sc.at["mdns"] # "select"
  /\ sc.at["mdns"] = "read" => sc.t < sc.wake
  /\ sc.at["arp"] = "select" => ~BuiltInCtxDone
  /\ sc' = [sc EXCEPT !.t = @ + 1]
  /\ UNCHANGED xScanners

\* scannerWg.Wait() returns: the scan ends, and with it the wait of Stop
BuiltInDone ==
  /\ sc.pc = "scanning"
  /\ \A k \in BuiltIn : sc.at[k] = "done"
  /\ sc' = [sc EXCEPT !.pc = "done"]
  /\ UNCHANGED xScanners

InitScanners ==
  /\ NoEngine /\ NoDeviceCalls
  /\ heap = NoHeap /\ calc = NoCalc /\ ps = NoStream /\ fan = NoFanIn
  /\ sc = [pc |-> "call", t |-> 0, cancelled |-> FALSE, cancelAt |-> 0, packets |-> 0,
           wake |-> 0, at |-> [k \in BuiltIn |-> "none"]]

NextScanners ==
  \/ BuiltInStart
  \/ BuiltInCancel
  \/ SSDPCheck
  \/ SSDPPacket
  \/ SSDPTimeout
  \/ MDNSSelect
  \/ MDNSRead
  \/ ARPReturn
  \/ BuiltInTick
  \/ BuiltInDone

SpecScanners == InitScanners /\ [][NextScanners]_vars

\* ======================= generateSubnetIPs (sweeper.go) =========================
\* An IP is its kind ("v4": 4 bytes, "v4in6": the 16-byte form of an IPv4 address,
\* "v6": an IPv6 address, "nil") and, for IPv4, its four bytes; a mask is the four
\* bytes of an IPv4 mask.  The list ips is kept as its length and its last element.
xSweep == <<evars, dvars, heap, ps, fan, sc>>

RECURSIVE ByteAnd(_, _)
ByteAnd(x, y) == IF x = 0 \/ y = 0 THEN 0 ELSE (x % 2) * (y % 2) + 2 * ByteAnd(x \div 2, y \div 2)

RECURSIVE ByteOr(_, _)
ByteOr(x, y) ==
  IF x = 0 THEN y ELSE IF y = 0 THEN x
  ELSE (IF x % 2 = 1 \/ y % 2 = 1 THEN 1 ELSE 0) + 2 * ByteOr(x \div 2, y \div 2)

ByteNot(x) == 255 - x

\* net.CIDRMask(ones, 32)
CIDRMask(ones) ==
  [i \in 1..4 |->
     LET k == ones - 8 * (i - 1)
     IN  IF k <= 0 THEN 0 ELSE IF k >= 8 THEN 255 ELSE 256 - 2 ^ (8 - k)]

\* IPMask.Size of a mask of leading ones
MaskSize(mask) ==
  CHOOSE ones \in 0..32 : CIDRMask(ones) = mask

\* IP.To4, IP.Mask and IP.Equal
To4(ip) == IF ip.kind \in {"v4", "v4in6"} THEN [kind |-> "v4", b |-> ip.b] ELSE [kind |-> "nil", b |-> ip.b]
IPMask(ip, mask) == [kind |-> "v4", b |-> [i \in 1..4 |-> ByteAnd(ip.b[i], mask[i])]]
IPEqual(x, y) == x.kind \in {"v4", "v4in6"} /\ y.kind \in {"v4", "v4in6"} /\ x.b = y.b

\* (mutant) newIP[len-1]++ without the carry
incrementLastByte(ip) == [ip EXCEPT !.b[4] = (@ + 1) % 256]

\* incrementIP: from the last byte, newIP[i]++ and stop unless it wrapped to 0
incrementIP(ip) ==
  LET carry(i) == \A j \in (i + 1)..4 : ip.b[j] = 255
  IN  [ip EXCEPT !.b = [i \in 1..4 |-> IF carry(i) THEN (ip.b[i] + 1) % 256 ELSE ip.b[i]]]

\* generateSubnetIPs up to the loop
generateSubnetIPs ==
  /\ calc.f = "generateSubnetIPs" /\ calc.pc = "call"
  /\ IF To4(calc.subnet.ip).kind = "nil"
       THEN calc' = [calc EXCEPT !.pc = "done"]
       ELSE LET ones == MaskSize(calc.subnet.mask)
                networkIP == IPMask(calc.subnet.ip, calc.subnet.mask)
                effectiveMask == IF ones < 16 THEN CIDRMask(16) ELSE calc.subnet.mask
                broadcastIP == [networkIP EXCEPT
                                  !.b = [i \in 1..4 |-> ByteOr(@[i], ByteNot(effectiveMask[i]))]]
            IN  calc' = [calc EXCEPT !.pc = "loop", !.networkIP = networkIP,
                                     !.broadcastIP = broadcastIP, !.currentIP = networkIP]
  /\ UNCHANGED xSweep

\* One turn of the loop: append currentIP unless it is skipIP; stop at broadcastIP,
\* else increment.
generateNext ==
  /\ calc.f = "generateSubnetIPs" /\ calc.pc = "loop"
  /\ LET c1 == IF ~IPEqual(calc.currentIP, calc.skipIP)
               THEN [calc EXCEPT !.n = @ + 1, !.last = calc.currentIP]
               ELSE calc
     IN  calc' = IF IPEqual(calc.currentIP, calc.broadcastIP)
                 THEN [c1 EXCEPT !.pc = "done"]
                 ELSE [c1 EXCEPT !.currentIP = incrementIP(calc.currentIP)]
  /\ UNCHANGED xSweep

\* The subnets of the interface: an address in either form with a prefix length,
\* or an IPv6 subnet; skipIP is nil, the address itself, or the first or the last
\* address of the subnet.
SweepAddresses ==
  {[kind |-> "v4", b |-> <<10, 1, 255, 7>>], [kind |-> "v4in6", b |-> <<10, 1, 255, 7>>],
   [kind |-> "v4", b |-> <<255, 255, 255, 250>>], [kind |-> "v6", b |-> <<0, 0, 0, 1>>]}
PrefixLengths == {16, 23, 24, 30, 31, 32}
NilIP == [kind |-> "nil", b |-> <<0, 0, 0, 0>>]
SkipIPs(ip, mask) ==
  {NilIP, ip, IPMask(ip, mask),
   [kind |-> "v4in6", b |-> [i \in 1..4 |-> ByteOr(ByteAnd(ip.b[i], mask[i]), ByteNot(mask[i]))]]}

InitSweep ==
  /\ NoEngine /\ NoDeviceCalls
  /\ heap = NoHeap /\ ps = NoStream /\ fan = NoFanIn /\ sc = NoScanner
  /\ \E ip \in SweepAddresses, ones \in PrefixLengths :
       \E skipIP \in SkipIPs(ip, CIDRMask(ones)) :
         calc = [f |-> "generateSubnetIPs", pc |-> "call",
                 subnet |-> [ip |-> ip, mask |-> CIDRMask(ones)], skipIP |-> skipIP,
                 networkIP |-> NilIP, broadcastIP |-> NilIP, currentIP |-> NilIP,
                 n |-> 0, last |-> NilIP]

NextSweep ==
  \/ generateSubnetIPs
  \/ generateNext

SpecSweep == InitSweep /\ [][NextSweep]_vars

\* ---- subnets with a prefix shorter than 16 bits; skipIP is the local IP, which
\* ---- lies in the subnet, inside or outside its first /16 block
LargeAddresses ==
  {[kind |-> "v4", b |-> <<10, 0, 0, 1>>], [kind |-> "v4", b |-> <<10, 5, 0, 1>>],
   [kind |-> "v4in6", b |-> <<10, 0, 255, 255>>]}
ShortPrefixLengths == {8, 15}

InitSweepLarge ==
  /\ NoEngine /\ NoDeviceCalls
  /\ heap = NoHeap /\ ps = NoStream /\ fan = NoFanIn /\ sc = NoScanner
  /\ \E ip \in LargeAddresses, ones \in ShortPrefixLengths :
       calc = [f |-> "generateSubnetIPs", pc |-> "call",
               subnet |-> [ip |-> ip, mask |-> CIDRMask(ones)], skipIP |-> ip,
               networkIP |-> NilIP, broadcastIP |-> NilIP, currentIP |-> NilIP,
               n |-> 0, last |-> NilIP]

SpecSweepLarge == InitSweepLarge /\ [][NextSweep]_vars

\* ---- the sweeper: Start, runSweep and triggerSubnetSweep
\* (src/pkg/discovery/sweeper/sweeper_test.go:151-213).  The probe goroutines
\* are counted by stage: probing (inside sendARPTarget) and released (the
\* deferred <-sem has run, the deferred wg.Done() has not).

maxConcurrentTriggers == 200

MaxReleasing == 2
MaxSweepTime == 3

TriggerTargets == {1, maxConcurrentTriggers + 1}
SweepTargets == {0, 1, 2}
SweepIntervals == {0, 2}
SweepTimeouts == {1, 2}

Sweeping == calc.f \in {"runSweep", "triggerSubnetSweep"}

\* the state on entry of triggerSubnetSweep(ctx, ips) with len(ips) = total: a
\* new WaitGroup and a new semaphore; the goroutines an earlier call left
\* behind (orphans) keep the old ones
EnterTrigger(c, total) ==
  [c EXCEPT !.f = "triggerSubnetSweep", !.pc = "check", !.total = total, !.i = 0,
            !.triggered = 0, !.sem = 0, !.wg = 0, !.probing = 0, !.released = 0,
            !.orphans = c.orphans + c.probing + c.released]

\* the loop's non-blocking select on ctx.Done(), and the end of the range loop
TriggerCheck ==
  /\ calc.f = "triggerSubnetSweep" /\ calc.pc = "check"
  /\ calc' = IF calc.i >= calc.total THEN [calc EXCEPT !.pc = "wait"]
             ELSE IF calc.cancelled THEN [calc EXCEPT !.pc = "returned", !.drained = FALSE]
             ELSE [calc EXCEPT !.pc = "add"]
  /\ UNCHANGED xSweep

TriggerAdd ==
  /\ calc.f = "triggerSubnetSweep" /\ calc.pc = "add"
  /\ calc' = [calc EXCEPT !.wg = @ + 1, !.pc = "acquire"]
  /\ UNCHANGED xSweep

\* sem <- struct{}{} blocks while the buffer holds maxConcurrentTriggers values
TriggerAcquireNoSlot ==
  /\ calc.f = "triggerSubnetSweep" /\ calc.pc = "acquire"
  /\ calc' = [calc EXCEPT !.triggered = @ + 1, !.pc = "go"]
  /\ UNCHANGED xSweep

TriggerAcquire ==
  /\ calc.f = "triggerSubnetSweep" /\ calc.pc = "acquire"
  /\ calc.sem < maxConcurrentTriggers
  /\ calc' = [calc EXCEPT !.sem = @ + 1, !.triggered = @ + 1, !.pc = "go"]
  /\ UNCHANGED xSweep

\* go func(targetIP) {...}(ip): one more goroutine inside sendARPTarget
TriggerGo ==
  /\ calc.f = "triggerSubnetSweep" /\ calc.pc = "go"
  /\ calc' = [calc EXCEPT !.probing = @ + 1, !.i = @ + 1, !.pc = "check"]
  /\ UNCHANGED xSweep

\* sendARPTarget returned; the last deferred call, <-sem, runs first
ProbeRelease ==
  /\ calc.f \in {"Start", "runSweep", "triggerSubnetSweep"}
  /\ calc.probing > 0 /\ calc.released < MaxReleasing
  /\ calc' = [calc EXCEPT !.probing = @ - 1, !.sem = @ - 1, !.released = @ + 1]
  /\ UNCHANGED xSweep

\* the first deferred call, wg.Done(), runs last
ProbeDone ==
  /\ calc.f \in {"Start", "runSweep", "triggerSubnetSweep"}
  /\ calc.released > 0
  /\ calc' = [calc EXCEPT !.released = @ - 1, !.wg = @ - 1]
  /\ UNCHANGED xSweep

\* wg.Wait() returns once the counter is zero
TriggerWait ==
  /\ calc.f = "triggerSubnetSweep" /\ calc.pc = "wait"
  /\ calc.wg = 0
  /\ calc' = [calc EXCEPT !.pc = "returned", !.drained = TRUE]
  /\ UNCHANGED xSweep

\* the caller cancels the context handed to Start
SweepCancel ==
  /\ calc.f \in {"Start", "runSweep", "triggerSubnetSweep"}
  /\ ~calc.cancelled /\ calc.pc # "stopped"
  /\ ~(calc.f = "triggerSubnetSweep" /\ calc.pc = "returned" /\ calc.caller = "none")
  /\ calc' = [calc EXCEPT !.cancelled = TRUE]
  /\ UNCHANGED xSweep

NewSweeper(caller, total, interval, timeout) ==
  [f |-> "Start", pc |-> "enter", caller |-> caller, total |-> total, i |-> 0,
   triggered |-> 0, sem |-> 0, wg |-> 0, probing |-> 0, released |-> 0,
   cancelled |-> FALSE, drained |-> FALSE, interval |-> interval, timeout |-> timeout,
   now |-> 0, began |-> 0, ticker |-> -1, ticks |-> 0, orphans |-> 0]

InitTrigger ==
  /\ NoEngine /\ NoDeviceCalls
  /\ heap = NoHeap /\ ps = NoStream /\ fan = NoFanIn /\ sc = NoScanner
  /\ \E total \in TriggerTargets : calc = EnterTrigger(NewSweeper("none", total, 0, 1), total)

NextTrigger ==
  \/ TriggerCheck \/ TriggerAdd \/ TriggerAcquire \/ TriggerGo
  \/ ProbeRelease \/ ProbeDone \/ TriggerWait \/ SweepCancel

SpecTrigger == InitTrigger /\ [][NextTrigger]_vars

\* Start: the ticker is made first when the interval is positive, then the
\* first sweep runs at once (sweeper_test.go:151-164)
SweeperStart ==
  /\ calc.f = "Start" /\ calc.pc = "enter"
  /\ calc' = [calc EXCEPT !.f = "runSweep", !.pc = "enter", !.began = calc.now,
                          !.ticker = IF calc.interval <= 0 THEN -1
                                     ELSE calc.now + calc.interval]
  /\ UNCHANGED xSweep

\* what Start does after runSweep returned: return, or go to the select
AfterSweep(c) ==
  [c EXCEPT !.f = "Start", !.pc = IF c.interval <= 0 THEN "stopped" ELSE "select"]

\* runSweep: ips := generateSubnetIPs(...); nothing to do for an empty list
runSweep ==
  /\ calc.f = "runSweep" /\ calc.pc = "enter"
  /\ calc' = IF calc.total = 0 THEN AfterSweep(calc) ELSE EnterTrigger(calc, calc.total)
  /\ UNCHANGED xSweep

\* triggerSubnetSweep returned to runSweep, which returns to Start
runSweepReturn ==
  /\ calc.f = "triggerSubnetSweep" /\ calc.pc = "returned" /\ calc.caller = "Start"
  /\ calc' = AfterSweep(calc)
  /\ UNCHANGED xSweep

\* select { case <-ctx.Done(): return; case <-ticker.C: s.runSweep(...) }
StartSelect ==
  /\ calc.f = "Start" /\ calc.pc = "select"
  /\ \/ /\ calc.cancelled
        /\ calc' = [calc EXCEPT !.pc = "stopped"]
     \/ /\ calc.ticks > 0
        /\ calc' = [calc EXCEPT !.ticks = 0, !.f = "runSweep", !.pc = "enter",
                                !.began = calc.now]
  /\ UNCHANGED xSweep

\* a goroutine of an earlier sweep ends
OrphanEnd ==
  /\ calc.f \in {"Start", "runSweep", "triggerSubnetSweep"}
  /\ calc.orphans > 0
  /\ calc' = [calc EXCEPT !.orphans = @ - 1]
  /\ UNCHANGED xSweep

\* time passes; the ticker's channel holds one tick and drops the others
SweepTick ==
  /\ calc.f \in {"Start", "runSweep", "triggerSubnetSweep"}
  /\ calc.pc # "stopped" /\ calc.now < MaxSweepTime
  /\ calc' = IF calc.ticker = calc.now + 1
             THEN [calc EXCEPT !.now = @ + 1, !.ticks = 1, !.ticker = @ + calc.interval]
             ELSE [calc EXCEPT !.now = @ + 1]
  /\ UNCHANGED xSweep

InitSweeper ==
  /\ NoEngine /\ NoDeviceCalls
  /\ heap = NoHeap /\ ps = NoStream /\ fan = NoFanIn /\ sc = NoScanner
  /\ \E total \in SweepTargets, interval \in SweepIntervals, timeout \in SweepTimeouts :
       calc = NewSweeper("Start", total, interval, timeout)

NextSweeper ==
  \/ SweeperStart \/ runSweep \/ runSweepReturn \/ StartSelect \/ SweepTick
  \/ TriggerCheck \/ TriggerAdd \/ TriggerAcquire \/ TriggerGo
  \/ ProbeRelease \/ ProbeDone \/ OrphanEnd \/ TriggerWait \/ SweepCancel

SpecSweeper == InitSweeper /\ [][NextSweeper]_vars

\* ---- the ARP scanner's filter: emitARPEntries
\* (src/pkg/discovery/scanners/arp/arp.go:102-205).  A MAC is its byte sequence
\* (nil: the record's flag); MAC.String() is one-to-one on byte sequences, so a
\* Device carries the bytes.

NilMAC == [nil |-> TRUE, b |-> <<>>]
ARPMACs ==
  {NilMAC, [nil |-> FALSE, b |-> <<>>],
   [nil |-> FALSE, b |-> <<0, 17, 34, 51, 68, 85>>],
   [nil |-> FALSE, b |-> <<2, 17, 34, 51, 68, 85>>],
   [nil |-> FALSE, b |-> <<1, 0, 94, 0, 0, 251>>],
   [nil |-> FALSE, b |-> <<255, 255, 255, 255, 255, 255>>]}
ARPIPs ==
  {NilIP, [kind |-> "v4", b |-> <<192, 168, 1, 10>>], [kind |-> "v4in6", b |-> <<192, 168, 1, 255>>],
   [kind |-> "v4", b |-> <<192, 168, 1, 11>>], [kind |-> "v4", b |-> <<224, 0, 0, 251>>],
   [kind |-> "v4in6", b |-> <<239, 255, 255, 250>>], [kind |-> "v4", b |-> <<240, 0, 0, 1>>],
   [kind |-> "v6", b |-> <<255, 2, 0, 251>>]}
ARPInterfaces == {"eth0", "wlan0"}
ARPAges == {0, 1}
ARPSubnets ==
  {[ip |-> [kind |-> "v4in6", b |-> <<192, 168, 1, 42>>], mask |-> CIDRMask(24)],
   [ip |-> [kind |-> "v4in6", b |-> <<192, 168, 1, 9>>], mask |-> CIDRMask(30)],
   [ip |-> [kind |-> "v4", b |-> <<192, 168, 0, 7>>], mask |-> CIDRMask(23)]}
ARPEntries == [IP : ARPIPs, MAC : ARPMACs, Age : ARPAges, InterfaceName : ARPInterfaces]
ARPEntryCounts == {1, 2}
ARPNow == 2

isMulticastMAC(mac) == Len(mac.b) > 0 /\ ByteAnd(mac.b[1], 1) # 0

isBroadcastMAC(mac) == Len(mac.b) = 6 /\ \A i \in 1..6 : mac.b[i] = 255

isBroadcastIPv4(ip, subnet) ==
  IF ip.kind = "nil" THEN FALSE
  ELSE IF To4(ip).kind = "nil" THEN FALSE
  ELSE IF Len(subnet.mask) # 4 THEN FALSE
  ELSE LET network == To4(IPMask(subnet.ip, subnet.mask))
           broadcast == [i \in 1..4 |-> ByteOr(network.b[i], ByteNot(subnet.mask[i]))]
       IN  network.kind # "nil" /\ IPEqual(To4(ip), [kind |-> "v4", b |-> broadcast])

\* (mutant) ip4[0] == 224 in place of ip4[0]&0xF0 == 224
isMulticastIPv4FirstBlock(ip) == To4(ip).kind # "nil" /\ To4(ip).b[1] = 224

isMulticastIPv4(ip) == To4(ip).kind # "nil" /\ ByteAnd(To4(ip).b[1], 240) = 224

\* the Device built for an entry: NewDevice(IP), SetMAC, AddSource, SetLastSeen
ARPDevice(entry) ==
  [ip |-> entry.IP, mac |-> entry.MAC.b, sources |-> {"arp-cache"},
   lastSeen |-> IF entry.Age > 0 THEN ARPNow - entry.Age ELSE ARPNow]

\* one iteration of the loop over the entries
emitARPEntry ==
  /\ calc.f = "emitARPEntries" /\ calc.pc = "loop" /\ calc.k <= Len(calc.entries)
  /\ LET entry == calc.entries[calc.k]
         skip == \/ entry.IP.kind = "nil" \/ entry.MAC.nil
                 \/ entry.InterfaceName # calc.iface
                 \/ isMulticastMAC(entry.MAC) \/ isBroadcastMAC(entry.MAC)
                 \/ isMulticastIPv4(entry.IP) \/ isBroadcastIPv4(entry.IP, calc.subnet)
     IN  IF skip THEN calc' = [calc EXCEPT !.k = @ + 1]
         ELSE \/ /\ calc.cancelled
                 /\ calc' = [calc EXCEPT !.pc = "done", !.ret = "ctxErr"]
              \/ calc' = [calc EXCEPT !.k = @ + 1, !.out = Append(@, ARPDevice(entry))]
  /\ UNCHANGED xCalc

emitARPReturn ==
  /\ calc.f = "emitARPEntries" /\ calc.pc = "loop" /\ calc.k > Len(calc.entries)
  /\ calc' = [calc EXCEPT !.pc = "done", !.ret = "nil"]
  /\ UNCHANGED xCalc

emitARPCancel ==
  /\ calc.f = "emitARPEntries" /\ calc.pc = "loop" /\ ~calc.cancelled
  /\ calc' = [calc EXCEPT !.cancelled = TRUE]
  /\ UNCHANGED xCalc

InitARP ==
  /\ NoEngine /\ NoDeviceCalls
  /\ heap = NoHeap /\ ps = NoStream /\ fan = NoFanIn /\ sc = NoScanner
  /\ \E subnet \in ARPSubnets, iface \in {"eth0"}, n \in ARPEntryCounts :
       \E entries \in [1..n -> ARPEntries] :
         calc = [f |-> "emitARPEntries", pc |-> "loop", subnet |-> subnet, iface |-> iface,
                 entries |-> entries, k |-> 1, out |-> <<>>, cancelled |-> FALSE,
                 ret |-> "none"]

NextARP == emitARPEntry \/ emitARPReturn \/ emitARPCancel

SpecARP == InitARP /\ [][NextARP]_vars

\* ---- the mDNS scanner: names (src/pkg/discovery/scanners/mdns/mdns.go:363-366).
\* A string is the sequence of its characters.

DotLocalDot == <<".", "l", "o", "c", "a", "l", ".">>
NamePieces == {<<"a">>, <<".">>, <<"l">>, DotLocalDot}
PieceCounts == {0, 1, 2, 3}
RECURSIVE Concat(_)
Concat(pieces) == IF pieces = <<>> THEN <<>> ELSE Head(pieces) \o Concat(Tail(pieces))
Names == {Concat(p) : p \in UNION {[1..n -> NamePieces] : n \in PieceCounts}}

HasSuffix(s, suffix) ==
  Len(s) >= Len(suffix) /\ SubSeq(s, Len(s) - Len(suffix) + 1, Len(s)) = suffix

\* strings.TrimSuffix: s without the suffix when s ends with it, else s
TrimSuffix(s, suffix) ==
  IF HasSuffix(s, suffix) THEN SubSeq(s, 1, Len(s) - Len(suffix)) ELSE s

cleanDisplayName(name) == TrimSuffix(TrimSuffix(name, DotLocalDot), <<".">>)

\* the two calls the name rule compares: cleanDisplayName(s) and
\* cleanDisplayName(s + ".local.")
CleanNames ==
  /\ calc.f = "cleanDisplayName" /\ calc.pc = "call"
  /\ calc' = [calc EXCEPT !.pc = "done", !.plain = cleanDisplayName(calc.s),
                          !.suffixed = cleanDisplayName(calc.s \o DotLocalDot)]
  /\ UNCHANGED xCalc

InitNames ==
  /\ NoEngine /\ NoDeviceCalls
  /\ heap = NoHeap /\ ps = NoStream /\ fan = NoFanIn /\ sc = NoScanner
  /\ \E s \in Names :
       calc = [f |-> "cleanDisplayName", pc |-> "call", s |-> s, plain |-> <<>>,
               suffixed |-> <<>>]

NextNames == CleanNames

SpecNames == InitNames /\ [][NextNames]_vars

\* ---- the mDNS scanner: responses (mdns.go:194-320).  One scan is one
\* scanSession; listenForResponses is its only reader and runs the handlers
\* of a response one after the other.

MaxResponses == 2

Senders == {<<10, 0, 0, 1>>, <<10, 0, 0, 12>>}
PTRValues == {<<"a", "-", "b", ".">>, <<"a">> \o DotLocalDot}
AnswerNames == {"serviceDiscoveryQuery", "service"}
Answers == [name : AnswerNames, ptr : PTRValues]
AnswerCounts == {0, 1, 2}
AnswerLists == UNION {[1..n -> Answers] : n \in AnswerCounts}
Additionals == {<<>>, <<"SRV">>}

DigitChars == <<"0", "1", "2", "3", "4", "5", "6", "7", "8", "9">>
RECURSIVE Decimal(_)
Decimal(n) == IF n < 10 THEN <<DigitChars[n + 1]>>
              ELSE Decimal(n \div 10) \o <<DigitChars[(n % 10) + 1]>>

\* net.IP.String() of an IPv4 address
Dotted(b) == Decimal(b[1]) \o <<".">> \o Decimal(b[2]) \o <<".">> \o Decimal(b[3]) \o <<".">> \o Decimal(b[4])

\* fmt.Sprintf("%s-%s", sender.IP.String(), ptrValue)
deviceID(sender, ptrValue) == Dotted(sender) \o <<"-">> \o ptrValue

\* the non-blocking send of a Device; ready: a receiver or buffer space is there
TrySend(c, device, ready) == IF ready THEN [c EXCEPT !.out = Append(@, device)] ELSE c

\* (mutant) the reportedDevices map is not consulted
handleDiscoveredDeviceAgain(c, ptrValue, sender, ready) ==
  LET device == [ip |-> sender, displayName |-> cleanDisplayName(ptrValue),
                 sources |-> {"mdns"}, ptr |-> ptrValue]
  IN  IF ready THEN [TrySend(c, device, ready) EXCEPT !.reportedDevices = @ \cup {deviceID(sender, ptrValue)}]
      ELSE c

handleDiscoveredDevice(c, ptrValue, sender, ready) ==
  LET device == [ip |-> sender, displayName |-> cleanDisplayName(ptrValue),
                 sources |-> {"mdns"}, ptr |-> ptrValue]
  IN  IF deviceID(sender, ptrValue) \in c.reportedDevices THEN [c EXCEPT !.repeated = TRUE]
      ELSE IF ready THEN [TrySend(c, device, ready) EXCEPT !.reportedDevices = @ \cup {deviceID(sender, ptrValue)}]
      ELSE c

\* the service type is queried (three queries) the first time it is seen
handleDiscoveredServiceType(c, serviceType) ==
  IF serviceType \in c.queriedServiceTypes THEN c
  ELSE [c EXCEPT !.queriedServiceTypes = @ \cup {serviceType}]

\* a Device from the additional records, sent when a SRV target named it
extractDeviceDetails(c, records, sender, ready) ==
  IF records = <<>> THEN c
  ELSE LET name == IF records[1] = "SRV" THEN cleanDisplayName(<<"h">> \o DotLocalDot) ELSE <<>>
           device == [ip |-> sender, displayName |-> name, sources |-> {"mdns"}, ptr |-> <<>>]
       IN  IF name # <<>> THEN TrySend(c, device, ready) ELSE c

\* the loop over msg.Answers; ready[j]: whether the j-th send finds a receiver
RECURSIVE handleAnswers(_, _, _, _, _)
handleAnswers(c, answers, j, sender, ready) ==
  IF j > Len(answers) THEN c
  ELSE handleAnswers(IF answers[j].name = "serviceDiscoveryQuery"
                       THEN handleDiscoveredServiceType(c, answers[j].ptr)
                       ELSE handleDiscoveredDevice(c, answers[j].ptr, sender, ready[j]),
                     answers, j + 1, sender, ready)

processDNSResponse(c, answers, additionals, sender, ready) ==
  extractDeviceDetails(handleAnswers(c, answers, 1, sender, ready), additionals, sender, ready[3])

\* a response packet is read and processed
ListenResponse ==
  /\ calc.f = "listenForResponses" /\ calc.pc = "read" /\ calc.responses < MaxResponses
  /\ \E sender \in Senders, answers \in AnswerLists, additionals \in Additionals,
        ready \in [1..3 -> BOOLEAN] :
       calc' = [processDNSResponse(calc, answers, additionals, sender, ready)
                  EXCEPT !.pc = "select", !.responses = @ + 1]
  /\ UNCHANGED xCalc

\* a read that times out, a malformed packet or a query: nothing is processed
ListenSkip ==
  /\ calc.f = "listenForResponses" /\ calc.pc = "read"
  /\ calc' = [calc EXCEPT !.pc = "select"]
  /\ UNCHANGED xCalc

\* select { case <-ctx.Done(): return nil; default: read }
ListenSelect ==
  /\ calc.f = "listenForResponses" /\ calc.pc = "select"
  /\ calc' = [calc EXCEPT !.pc = IF calc.cancelled THEN "done" ELSE "read"]
  /\ UNCHANGED xCalc

ListenCancel ==
  /\ calc.f = "listenForResponses" /\ calc.pc # "done" /\ ~calc.cancelled
  /\ calc' = [calc EXCEPT !.cancelled = TRUE]
  /\ UNCHANGED xCalc

InitListen ==
  /\ NoEngine /\ NoDeviceCalls
  /\ heap = NoHeap /\ ps = NoStream /\ fan = NoFanIn /\ sc = NoScanner
  /\ calc = [f |-> "listenForResponses", pc |-> "select", reportedDevices |-> {},
             queriedServiceTypes |-> {}, out |-> <<>>, responses |-> 0,
             repeated |-> FALSE, cancelled |-> FALSE]

NextListen == ListenResponse \/ ListenSkip \/ ListenSelect \/ ListenCancel

SpecListen == InitListen /\ [][NextListen]_vars

\* ---- one run in which the caller of Start may cancel the context it passed:
\* ---- the context Start derives with context.WithCancel(ctx) is then done
CallerCancel(l) ==
  /\ Alive
  /\ loop[l].pc # "none" /\ l \notin ctxDone
  /\ ctxDone' = ctxDone \cup {l}
  /\ UNCHANGED <<ovars, dvars, scanInterval, scanners, hasSweeper, running, cancel, wg, events, closed,
                 panicked, hist, now, loop, scan, scanner, sweeping, stop>>

NextCaller ==
  \/ Start /\ cancel = 0
  \/ \E l \in Loops : CallerCancel(l)
  \/ \E o \in Loops, k \in Scanners, d \in LoopObs : ScannerObserve(o, k, d)
  \/ \E o \in Loops, k \in Scanners, r \in Results : ScannerReturn(o, k, r)
  \/ \E l \in Loops : LoopSingleScan(l)
  \/ \E l \in Loops : LoopSingleDone(l)
  \/ \E l \in Loops : LoopInit(l)
  \/ \E l \in Loops : LoopCancelled(l)
  \/ \E l \in Loops : LoopBeginScan(l)
  \/ \E l \in Loops : LoopEndScan(l)
  \/ StopEnter(1)
  \/ StopCancel(1)
  \/ StopWait(1)
  \/ StopEmit(1)
  \/ StopClose(1)
  \/ Receive
  \/ Tick

\* ---- the engine's life cycle: concurrent Start, Stop and Scan calls on an engine
\* ---- that has a sweeper and no scanner; the clock stands still
Init == NewEngine /\ scanners = {} /\ NoDevices

Next ==
  \/ Start
  \/ ScanCall
  \/ ScanReturn
  \/ \E l \in Loops : LoopSingleScan(l)
  \/ \E l \in Loops : LoopSingleDone(l)
  \/ \E l \in Loops : LoopInit(l)
  \/ \E l \in Loops : LoopCancelled(l)
  \/ \E l \in Loops : LoopBeginScan(l)
  \/ \E l \in Loops : LoopEndScan(l)
  \/ \E l \in Loops : SweeperReturn(l)
  \/ \E c \in StopCallers : StopEnter(c)
  \/ \E c \in StopCallers : StopCancel(c)
  \/ \E c \in StopCallers : StopWait(c)
  \/ \E c \in StopCallers : StopEmit(c)
  \/ \E c \in StopCallers : StopClose(c)
  \/ Receive

Spec == Init /\ [][Next]_vars

\* ---- one run of an engine with scanners and no sweeper: one Start, the scan
\* ---- loop and its scanners on the clock, one Stop caller
InitLoop == NewEngine /\ scanners = Scanners /\ ~hasSweeper /\ NoDevices

NextLoop ==
  \/ Start /\ cancel = 0
  \/ \E o \in Loops, k \in Scanners, d \in LoopObs : ScannerObserve(o, k, d)
  \/ \E o \in Loops, k \in Scanners, r \in Results : ScannerReturn(o, k, r)
  \/ \E l \in Loops : LoopSingleScan(l)
  \/ \E l \in Loops : LoopSingleDone(l)
  \/ \E l \in Loops : LoopInit(l)
  \/ \E l \in Loops : LoopCancelled(l)
  \/ \E l \in Loops : LoopBeginScan(l)
  \/ \E l \in Loops : LoopEndScan(l)
  \/ StopEnter(1)
  \/ StopCancel(1)
  \/ StopWait(1)
  \/ StopEmit(1)
  \/ StopClose(1)
  \/ Receive
  \/ Tick

SpecLoop == InitLoop /\ [][NextLoop]_vars

\* ---- the same run with a caller that may cancel the context passed to Start
SpecCaller == InitLoop /\ [][NextCaller]_vars

\* ---- calls of Engine.Scan on an engine with scanners that has not been started
InitScan == NewEngine /\ scanners = Scanners /\ ~hasSweeper /\ scanInterval = 0 /\ NoDevices

NextScan ==
  \/ ScanCall
  \/ \E k \in Scanners, d \in Obs : ScannerObserve(0, k, d)
  \/ \E k \in Scanners, r \in Results : ScannerReturn(0, k, r)
  \/ ScanReturn
  \/ Receive

SpecScan == InitScan /\ [][NextScan]_vars

\* ---- the same run with nobody reading e.Events.  Every goroutine that can
\* ---- take a step eventually takes it, and every scanner's Scan returns.
NextNoConsumer ==
  \/ Start /\ cancel = 0
  \/ \E o \in Loops, k \in Scanners, d \in LoopObs : ScannerObserve(o, k, d)
  \/ \E o \in Loops, k \in Scanners, r \in Results : ScannerReturn(o, k, r)
  \/ \E l \in Loops : LoopSingleScan(l)
  \/ \E l \in Loops : LoopSingleDone(l)
  \/ \E l \in Loops : LoopInit(l)
  \/ \E l \in Loops : LoopCancelled(l)
  \/ \E l \in Loops : LoopBeginScan(l)
  \/ \E l \in Loops : LoopEndScan(l)
  \/ StopEnter(1)
  \/ StopCancel(1)
  \/ StopWait(1)
  \/ StopEmit(1)
  \/ StopClose(1)
  \/ Tick

Scheduling ==
  /\ \A o \in Loops, k \in Scanners : WF_vars(\E r \in Results : ScannerReturn(o, k, r))
  /\ \A l \in Loops : WF_vars(LoopSingleScan(l))
  /\ \A l \in Loops : WF_vars(LoopInit(l))
  /\ \A l \in Loops : WF_vars(LoopBeginScan(l))
  /\ \A l \in Loops : WF_vars(LoopSingleDone(l))
  /\ \A l \in Loops : WF_vars(LoopCancelled(l))
  /\ \A l \in Loops : WF_vars(LoopEndScan(l))
  /\ WF_vars(StopCancel(1))
  /\ WF_vars(StopWait(1))
  /\ WF_vars(StopEmit(1))
  /\ WF_vars(StopClose(1))

SpecNoConsumer == InitLoop /\ [][NextNoConsumer]_vars /\ Scheduling

\* ======================= properties =============================================

LiveLoops == {l \in Loops : loop[l].pc \notin {"none", "done"}}

\* C1: when a call of Stop on an engine that has been started returns, the event
\* channel is closed (for every caller, also with several concurrent callers).
C1_StopReturnsWithChannelClosed ==
  \A c \in StopCallers : (stop[c].pc = "returned" /\ stop[c].started) => closed

\* C2: for any interleaving of Start, Stop and Scan calls no event is sent on the
\* event channel after it has been closed: the engine never panics.
C2_NoSendOnClosedChannel == panicked # "send on closed channel"

\* C3: further Start calls on a running engine launch no additional scan loop: at
\* most one scan loop exists at any time.
C3_AtMostOneScanLoop == Cardinality(LiveLoops) <= 1

\* C4: however Stop is called, the event channel is closed at most once and
\* EngineStopped is emitted at most once.
C4_ClosedAndStoppedAtMostOnce ==
  panicked # "close of closed channel" /\ nStopped <= 1

\* C5: EngineStarted is put on the event channel before any other event.
C5_EngineStartedIsFirst == first \in {"none", "EngineStarted"}

\* C6: when Stop closes the event stream of a started engine, the last event put
\* on it, hence the last the consumer gets before the close, is EngineStopped.
C6_EngineStoppedIsLast == closed => last = "EngineStopped"

Phase(t) ==
  CASE t = "ScanStarted" -> 0
    [] t \in {"DeviceDiscovered", "Error"} -> 1
    [] t = "ScanCompleted" -> 2
    [] OTHER -> 3

\* Event b of a scan loop may be put on the channel after its event a.
Follows(a, b) ==
  \/ a.type = "none"
  \/ a.n < b.n
  \/ a.n = b.n /\ Phase(a.type) <= Phase(b.type)

\* C7: in the order the events of one scan loop are put on the channel, a scan's
\* ScanStarted comes before its DeviceDiscovered and Error events, these before
\* its ScanCompleted, and ScanCompleted of scan N before ScanStarted of scan N+1.
C7_ScanEventsInOrder ==
  [][\A l \in Loops : mon'[l] # mon[l] => Follows(mon[l], mon'[l])]_vars

C7_Witness ==
  \E l \in Loops : mon[l] = [type |-> "ScanCompleted", n |-> 2] /\ scan[l].count > 0

\* C8: a scan loop starts its next scan only after performScan of the previous
\* scan has returned and all scanner goroutines of that scan have returned.
C8_ScansNeverOverlap ==
  [][\A l \in Loops :
        scan'[l].n # scan[l].n =>
          /\ scan[l].st = "idle"
          /\ \A k \in Scanners : scanner[l][k].st # "running"]_vars

C8_Witness ==
  \E l \in Loops : scan[l].n = 2 /\ \E k \in Scanners : scanner[l][k].st = "running"

Max(a, b) == IF a < b THEN b ELSE a

\* C9: with a scan interval i > 0 the first scan starts when Start launches the
\* loop, and each later scan starts at max(previous start + i, previous end).
C9_FixedRateSchedule ==
  [][\A l \in Loops :
        (scanInterval > 0 /\ scan'[l].n = scan[l].n + 1) =>
          now' = IF scan[l].n = 0
                   THEN loop[l].launched
                   ELSE Max(loop[l].scanStart + scanInterval, loop[l].scanEnd)]_vars

C9_Witness ==
  \E l \in Loops :
    /\ scanInterval > 0
    /\ scan[l].n = 2
    /\ scan[l].st = "scanning"
    /\ loop[l].scanEnd > loop[l].launched + scanInterval

\* C10: with scan interval 0 a scan loop runs one scan and exits; it never starts
\* a second scan.
C10_SingleScanOnIntervalZero ==
  scanInterval = 0 =>
    \A l \in Loops :
      /\ scan[l].n <= 1
      /\ loop[l].pc \in {"none", "start", "single", "done"}
      /\ loop[l].pc \in {"none", "start"} => scan[l].n = 0
      /\ loop[l].pc = "done" => scan[l].n = 1 /\ scan[l].st = "idle"

C10_Witness ==
  \E l \in Loops : scanInterval = 0 /\ loop[l].pc = "done" /\ running /\ now = MaxTime

\* C11: emit never waits for room in the event channel: with nobody reading it,
\* the buffer never holds more than EventBuf events, every scan that began
\* completes and a Stop call that has entered returns.
C11_EmitNeverBlocks ==
  /\ [](Len(events) <= EventBuf)
  /\ \A l \in Loops : (scan[l].st = "scanning") ~> (scan[l].st = "idle")
  /\ (stop[1].pc = "cancel") ~> (stop[1].pc = "returned" /\ closed)

C11_Witness ==
  /\ Len(events) = EventBuf
  /\ stop[1].pc = "returned"
  /\ closed
  /\ \E l \in Loops : scan[l].n = MaxScans /\ scan[l].count > 0

\* What emit does to the channel of a live engine: the event type is appended if
\* there is room, else nothing changes.
Emitted(t) == events' = IF EmitFits THEN Append(events, t) ELSE events

Failed(l) == \E k \in Scanners : scanner[l][k].res = "err"

\* C12: when a scanner's Scan returns an error, an Error event is emitted and the
\* scan goes on: the observations of the other scanners are still merged and
\* reported, ScanCompleted is emitted with the devices of the scan and the next
\* scan is scheduled as after any scan.
C12_ScannerErrorDoesNotAbortScan ==
  [][\A l \in Loops :
        /\ \A k \in Scanners :
              (scanner[l][k].st = "running" /\ scanner'[l][k].res = "err") =>
                 /\ Emitted("Error")
                 /\ scan'[l] = scan[l]
                 /\ loop'[l] = loop[l]
                 /\ \A j \in Scanners \ {k} : scanner'[l][j] = scanner[l][j]
        /\ \A j \in Scanners :
              (Failed(l) /\ scanner'[l][j].sent = scanner[l][j].sent + 1) =>
                 \/ scan'[l] = scan[l] /\ events' = events
                 \/ /\ Len(scan'[l].seen) = Len(scan[l].seen) + 1
                    /\ scan'[l].seen[Len(scan'[l].seen)].dev = <<j, scanner'[l][j].sent>>
                    /\ \E e \in scan'[l].devices : e.ip = scan'[l].seen[Len(scan'[l].seen)].ip
                    /\ Emitted("DeviceDiscovered")
        /\ (Failed(l) /\ scan[l].st = "scanning" /\ scan'[l].st = "idle") =>
                 /\ Emitted("ScanCompleted")
                 /\ scan'[l].count = Cardinality({scan[l].seen[i].ip : i \in DOMAIN scan[l].seen})
                 /\ scanInterval > 0 =>
                       /\ loop'[l].pc = "wait"
                       /\ loop'[l].nextDue = Max(loop[l].scanStart + scanInterval, now)]_vars

C12_Witness ==
  \E l \in Loops, k, j \in Scanners :
    /\ scanner[l][k].res = "err"
    /\ scanner[l][j].res = "nil"
    /\ \E i \in DOMAIN scan[l].seen : scan[l].seen[i].dev[1] = j
    /\ mon[l].type = "DeviceDiscovered"
    /\ scan[l].n = 2

\* C13: once the context of the engine has been cancelled, a scanner whose Scan
\* returns a context error puts no Error event on the channel.
C13_NoErrorForCancellation ==
  [][\A l \in Loops, k \in Scanners :
        (l \in ctxDone /\ scanner[l][k].st = "running" /\ scanner'[l][k].res = "ctxerr")
          => events' = events]_vars

\* C14: a scan is over at its deadline, scanTimeout after it began, also when a
\* scanner has not returned by then.
C14_ScanEndsByDeadline ==
  \A o \in Owners : scan[o].st = "scanning" => now <= scan[o].start + ScanTimeout

\* The IPs of the valid observations a scan received.
SeenIPs(o) == {scan[o].seen[i].ip : i \in DOMAIN scan[o].seen}

\* The IPs under which device p was observed in a scan.
IPsOf(o, p) == {scan[o].seen[i].ip : i \in {j \in DOMAIN scan[o].seen : scan[o].seen[j].dev = p}}

\* C15: a completed scan returns exactly one Device per distinct IP among the
\* valid observations it received, and the DeviceCount of its ScanCompleted is
\* that number, whatever was dropped and in whatever order the scanners delivered.
C15_OneDevicePerIP ==
  \A o \in Owners :
    (scan[o].st = "idle" /\ scan[o].n > 0) =>
       /\ scan[o].count = Cardinality(SeenIPs(o))
       /\ Cardinality(scan[o].result) = Cardinality(SeenIPs(o))
       /\ \A ip \in SeenIPs(o) :
             Cardinality({p \in scan[o].result : ip \in IPsOf(o, p)}) = 1

C15_Witness ==
  /\ scan[0].st = "idle"
  /\ Len(scan[0].seen) = 2
  /\ scan[0].seen[1].ip = scan[0].seen[2].ip
  /\ scan[0].seen[1].dev[1] = 2
  /\ scan[0].count = 1
  /\ first # "DeviceDiscovered" /\ last # "DeviceDiscovered"

\* The first observation of the IP of the i-th valid observation of a scan.
FirstOf(o, i) ==
  LET j == CHOOSE j \in 1..i :
             /\ scan[o].seen[j].ip = scan[o].seen[i].ip
             /\ \A h \in 1..(j - 1) : scan[o].seen[h].ip # scan[o].seen[i].ip
  IN  scan[o].seen[j]

\* C16: a scan passes one DeviceDiscovered event to emit per valid observation,
\* in arrival order, each carrying the first Device observed under that IP, which
\* is also the Device of that IP in the result of the scan.
C16_DiscoveredCarriesFirstDevice ==
  \A o \in Owners :
    /\ Len(scan[o].disc) = Len(scan[o].seen)
    /\ \A i \in DOMAIN scan[o].seen :
          /\ scan[o].disc[i] = FirstOf(o, i)
          /\ scan[o].st = "scanning" => scan[o].disc[i] \in scan[o].devices
          /\ (scan[o].st = "idle" /\ scan[o].n > 0) => scan[o].disc[i].dev \in scan[o].result

C16_Witness ==
  /\ scan[0].st = "idle"
  /\ Len(scan[0].disc) = 2
  /\ scan[0].disc[1] = scan[0].disc[2]
  /\ scan[0].seen[2].dev # scan[0].disc[2].dev

\* A Merge call has just been made.
Merged == call'.n = call.n + 1 /\ call'.op = "Merge"

\* The value of a field after Merge: what it held, or the operand's if it held none.
Filled(old, operand, empty) == IF old = empty THEN operand ELSE old

\* C17: a Merge call never overwrites: ip, mac, displayName and manufacturer keep
\* a non-empty value and take the operand's only when empty, extraData keeps the
\* value of every key it has and takes the operand's for a missing key only.  So
\* over any sequence of calls each keeps the first value it ever held.
C17_MergeNeverOverwrites ==
  [][Merged =>
       LET d == dev[call'.d]
           other == dev[call'.other]
           after == dev'[call'.d]
       IN  /\ after.ip = Filled(d.ip, other.ip, 0)
           /\ after.mac = Filled(d.mac, other.mac, "")
           /\ after.displayName = Filled(d.displayName, other.displayName, "")
           /\ after.manufacturer = Filled(d.manufacturer, other.manufacturer, "")
           /\ DOMAIN after.extraData = DOMAIN d.extraData \cup DOMAIN other.extraData
           /\ \A k \in DOMAIN d.extraData : after.extraData[k] = d.extraData[k]
           /\ \A k \in DOMAIN other.extraData \ DOMAIN d.extraData :
                 after.extraData[k] = other.extraData[k]
           /\ \A x \in DeviceNames \ {call'.d} : dev'[x] = dev[x]]_vars

C17_Witness ==
  /\ call = [op |-> "Merge", d |-> "a", other |-> "b", n |-> 2]
  /\ dev["a"].mac = "x" /\ dev["b"].mac = "y"
  /\ dev["a"].ip = 1 /\ dev["b"].ip = 2
  /\ dev["a"].displayName = "y" /\ dev["b"].displayName = "y"
  /\ "k" \in DOMAIN dev["a"].extraData /\ dev["a"].extraData["k"] = "v"
  /\ "k" \in DOMAIN dev["b"].extraData /\ dev["b"].extraData["k"] = "w"

\* The elements of a list in order of first appearance, each once.
RECURSIVE Distinct(_)
Distinct(list) ==
  IF list = <<>>
    THEN <<>>
    ELSE LET front == Distinct(SubSeq(list, 1, Len(list) - 1))
         IN  IF list[Len(list)] \in Range(front) THEN front
                                                 ELSE Append(front, list[Len(list)])

PortsOf(d, pr) == IF pr \in DOMAIN d.openPorts THEN d.openPorts[pr] ELSE <<>>

\* C18: after a Merge call between two Devices with the same IP the target's
\* sources are the union of both source sets, and each openPorts[proto] holds the
\* ports of both lists in order of first appearance, none twice.
C18_MergeUnitesSourcesAndPorts ==
  [][(Merged /\ call'.d # call'.other) =>
       LET d == dev[call'.d]
           other == dev[call'.other]
           after == dev'[call'.d]
       IN  /\ after.sources = d.sources \cup other.sources
           /\ DOMAIN after.openPorts = DOMAIN d.openPorts \cup DOMAIN other.openPorts
           /\ \A pr \in DOMAIN after.openPorts :
                 after.openPorts[pr] = Distinct(PortsOf(d, pr) \o PortsOf(other, pr))]_vars

\* C19: every Device that scanners created or the engine merged has
\* firstSeen <= lastSeen.
C19_FirstSeenNotAfterLastSeen ==
  \A x \in DeviceNames : dev[x].ip # 0 => dev[x].firstSeen <= dev[x].lastSeen

\* C20: concurrent Merge calls never deadlock: every call that has begun
\* obtains both locks, completes and returns.
C20_MergeCallsComplete ==
  \A g \in Mergers : (merging[g].pc = "lock") ~> (merging[g].pc = "done")


\* C21: a call on one side (the original, its Copy, or the caller that holds what
\* the getters returned) leaves what every other side can observe unchanged.
HeapSides == {"a", "b", "ret"}
RefsOf(h, side) == IF side = "ret" THEN h.ret ELSE h.obj[side]
C21_CopiesShareNoState ==
  [][\A side \in HeapSides :
       side # heap'.side => View(heap', RefsOf(heap', side)) = View(heap, RefsOf(heap, side))]_vars
C21_Witness ==
  /\ Exists("b")
  /\ heap.ret.openPorts # 0
  /\ heap.op \in {"Merge", "AddSource", "AddExtraData", "SetOpenPorts", "write"}
  /\ View(heap, heap.obj["a"]) # View(heap, heap.obj["b"])

\* C22: a NewEngine call that is given an interface fails with
\* ErrNoScannersOrSweeper exactly when it is given neither a scanner nor a sweeper;
\* with a sweeper and an empty set of scanners it succeeds, and with at least one
\* scanner and no sweeper it succeeds.
Passed(opt) == {calc.opts[i].arg : i \in {j \in 1..Len(calc.opts) : calc.opts[j].opt = opt}}
LastPassed(opt) ==
  LET at == {j \in 1..Len(calc.opts) : calc.opts[j].opt = opt}
  IN  IF at = {} THEN 0 ELSE calc.opts[CHOOSE j \in at : \A k \in at : k <= j].arg
C22_Supplied ==
  /\ calc.f = "NewEngine" /\ calc.pc = "done"
  /\ Passed("WithInterface") = {1}
  /\ 0 \notin Passed("WithScanTimeout")
C22_ScannerOrSweeperRequired ==
  C22_Supplied =>
    LET aScanner == \E n \in Passed("WithScanners") : n > 0
        aSweeper == LastPassed("WithSweeper") = 1
    IN  /\ (calc.err = "ErrNoScannersOrSweeper") <=> (~aScanner /\ ~aSweeper)
        /\ (aSweeper /\ ~aScanner) => calc.err = "nil"
        /\ (aScanner /\ ~aSweeper) => calc.err = "nil"

\* C23: while the context is not cancelled, the callback has been invoked at most
\* once per entry of ports and never for an entry whose connect failed; when
\* Stream has returned nil, every entry has been probed and the callback has been
\* invoked once for every entry whose connect succeeded.
C23_CallbackOncePerOpenPort ==
  (ps.pc # "none" /\ ~ps.cancelled) =>
    /\ \A i \in 1..Len(ps.ports) :
         /\ ps.calls[i] <= 1
         /\ ps.ports[i] = "refused" => ps.calls[i] = 0
    /\ (ps.pc = "done" /\ ps.ret = "nil") =>
         \A i \in 1..Len(ps.ports) :
           /\ ps.probed[i] = 1
           /\ ps.dialled[i] => ps.calls[i] = 1

\* C24: when the context was cancelled while Stream was running and some entry of
\* ports had not been probed yet, Stream returns the context's error: it does not
\* return nil, and the call does not end in a panic.
C24_CancelledStreamReturnsError ==
  ps.midRun =>
    /\ ~ps.panicked
    /\ ps.pc = "done" => ps.ret = "ctx"

\* C25: every way of writing an address (colons, dashes, dots, no separator; any
\* letter case) normalises to the six upper-case hex digits of its first three
\* bytes, so Lookup gives one result per address; an input with fewer than six
\* characters besides separators gives ("", false).
Separators == {":", "-", "."}
RECURSIVE Stripped(_)
Stripped(s) ==
  IF s = <<>> THEN 0 ELSE (IF Head(s) \in Separators THEN 0 ELSE 1) + Stripped(Tail(s))
CanonicalPrefix(addr) == [i \in 1..6 |-> HexChar(addr[i], TRUE)]
C25_OnePrefixPerAddress ==
  (calc.f = "Lookup" /\ calc.pc = "done") =>
    /\ calc.whole =>
         /\ calc.prefix = CanonicalPrefix(calc.addr)
         /\ calc.res = IF CanonicalPrefix(calc.addr) \in DOMAIN prefixMap
                       THEN [org |-> prefixMap[CanonicalPrefix(calc.addr)], found |-> TRUE]
                       ELSE [org |-> "", found |-> FALSE]
    /\ Stripped(calc.mac) < 6 => calc.res = [org |-> "", found |-> FALSE]
C25_Witness ==
  /\ calc.f = "Lookup" /\ calc.pc = "done"
  /\ calc.whole /\ calc.res.found
  /\ "." \in Range(calc.mac) /\ "b" \in Range(calc.mac)

\* C26: every Device of the scan's merge map has a non-nil IP whose string form is
\* its key; an observation that is nil or has a nil or empty IP leaves the map and
\* the Devices passed to emit as they are, and DeviceCount counts the IPs of the
\* other observations only.
Invalid(o) == ~o.ptr \/ o.d.ip \in {0, EmptyIP}
C26_MapKeyedByIP ==
  [][calc'.f = "processDevice" =>
       /\ \A key \in DOMAIN calc'.devices :
            /\ calc'.devices[key].ip # 0
            /\ IPString(calc'.devices[key].ip) = key
       /\ (Len(calc'.obs) > Len(calc.obs) /\ Invalid(calc'.obs[Len(calc'.obs)])) =>
            /\ calc'.devices = calc.devices
            /\ calc'.emitted = calc.emitted
       /\ calc'.pc = "done" =>
            calc'.count = Cardinality({IPString(o.d.ip) : o \in {p \in Range(calc'.obs) : ~Invalid(p)}})
    ]_vars
C26_Witness ==
  /\ calc.f = "processDevice" /\ calc.pc = "done"
  /\ calc.count = 1
  /\ \E i \in 1..Len(calc.obs) : calc.obs[i].ptr /\ calc.obs[i].d.ip = EmptyIP
  /\ \E i \in 1..Len(calc.obs) : ~calc.obs[i].ptr

\* C27: after an observation has been processed, the canonical Device of its IP
\* keeps the manufacturer it had, else has the one the observation brought, else,
\* if a registry is configured and the prefix of its MAC is registered, has the
\* registry's organisation for that prefix.
Registered(mac) == mac # "" /\ normalizeMACPrefix(MACText(mac)) \in DOMAIN prefixMap
C27_ManufacturerFromRegistry ==
  [][(calc'.f = "processDevice" /\ Len(calc'.obs) > Len(calc.obs)
        /\ ~Invalid(calc'.obs[Len(calc'.obs)])) =>
       LET d == calc'.obs[Len(calc'.obs)].d
           key == IPString(d.ip)
           found == key \in DOMAIN calc.devices
           had == IF found THEN calc.devices[key].manufacturer ELSE ""
           mac == calc'.devices[key].mac
           now1 == calc'.devices[key].manufacturer
       IN  /\ had # "" => now1 = had
           /\ (had = "" /\ d.manufacturer # "") => now1 = d.manufacturer
           /\ (had = "" /\ d.manufacturer = "" /\ calc.registry /\ Registered(mac)) =>
                now1 = prefixMap[normalizeMACPrefix(MACText(mac))]
           /\ (had = "" /\ d.manufacturer = "" /\ ~(calc.registry /\ Registered(mac))) =>
                now1 = ""
    ]_vars
C27_Witness ==
  /\ calc.f = "processDevice" /\ calc.registry
  /\ \E key \in DOMAIN calc.devices :
       /\ calc.devices[key].mac = "x" /\ calc.devices[key].manufacturer = "Acme"
  /\ Len(calc.obs) > 1
  /\ calc.obs[1].d.mac = "" /\ ~Invalid(calc.obs[1])
  /\ calc.obs[Len(calc.obs)].d.manufacturer = "y"

\* C28: the fan-in channel of a scan has a positive capacity: an observation that
\* ssdp or mdns offers while the range loop is busy with an earlier one is queued
\* when nothing is pending, and is dropped only if as many observations as the
\* capacity are pending.
C28_FanInBuffersObservations ==
  \A x \in fan.dropped : x.pending >= fan.cap /\ x.pending > 0

\* C29: once the engine context has been cancelled during a scan, every built-in
\* scanner has returned by the time one polling period has passed, so the wait of
\* Stop for the scan lasts no longer than that.
C29_ScannersReturnAfterCancel ==
  sc.cancelled => \A k \in BuiltIn : sc.at[k] # "done" => sc.t <= sc.cancelAt + Poll

\* C30: for an IPv4 subnet with a prefix of 16 bits or more, every address that
\* generateSubnetIPs appends lies between the network and the broadcast address,
\* is not the local IP and is greater than the one appended before; when it
\* returns it has appended as many addresses as the subnet has, less the local IP
\* if that is one of them.  For a subnet that is not IPv4 it returns no address.
RECURSIVE BytesLess(_, _)
BytesLess(x, y) ==
  IF x = <<>> THEN FALSE
  ELSE Head(x) < Head(y) \/ (Head(x) = Head(y) /\ BytesLess(Tail(x), Tail(y)))
BytesLeq(x, y) == x = y \/ BytesLess(x, y)
SubnetFirst == [i \in 1..4 |-> calc.subnet.ip.b[i] - (calc.subnet.ip.b[i] % (256 - calc.subnet.mask[i]))]
SubnetLast == [i \in 1..4 |-> SubnetFirst[i] + 255 - calc.subnet.mask[i]]
SubnetSize == 2 ^ (32 - MaskSize(calc.subnet.mask))
C31_LargeSubnetCapped ==
  (calc.f = "generateSubnetIPs" /\ MaskSize(calc.subnet.mask) < 16) =>
    /\ calc.n <= 65535
    /\ calc.n > 0 =>
         /\ calc.last.b[1] = ByteAnd(calc.subnet.ip.b[1], calc.subnet.mask[1])
         /\ calc.last.b[2] = ByteAnd(calc.subnet.ip.b[2], calc.subnet.mask[2])

\* C32: during a sweep no more than 200 target probes are in flight: every
\* goroutine inside sendARPTarget holds one of the 200 semaphore slots, taken
\* before it was started and given back only when it ends.
C32_AtMost200InFlight ==
  calc.f = "triggerSubnetSweep" =>
    /\ calc.probing <= calc.sem
    /\ calc.sem <= maxConcurrentTriggers
    /\ calc.pc = "go" => calc.probing < calc.sem

\* all 200 slots are held by running probes and the loop waits for a slot
C32_Witness ==
  /\ calc.f = "triggerSubnetSweep" /\ calc.pc = "acquire"
  /\ calc.probing = maxConcurrentTriggers /\ calc.sem = maxConcurrentTriggers
  /\ calc.i < calc.total

\* C33: once the context is cancelled during a sweep, no further probe
\* goroutine is started, and triggerSubnetSweep does not stand in wg.Wait()
\* for the probes still in flight.
C33_CancelStopsSweep ==
  [][(calc.f = "triggerSubnetSweep" /\ calc.cancelled /\ calc.pc # "returned") =>
       /\ calc'.probing <= calc.probing
       /\ ~(calc'.pc = "wait" /\ calc'.wg > 0)]_vars

\* C34: a sweep cycle is bounded by the sweeper's timeout: a sweep that has
\* run for longer than the timeout has had its context cancelled.
C34_SweepBoundedByTimeout ==
  (Sweeping /\ calc.now - calc.began > calc.timeout) => calc.cancelled

\* C35: the ARP scanner emits no Device with a multicast or broadcast MAC, an
\* IP in 224.0.0.0/4, the subnet's broadcast IP, or another interface's name;
\* every other entry with an IP and a MAC is emitted unless the context is
\* cancelled.
OddMAC(b) == Len(b) > 0 /\ b[1] % 2 = 1
IsIPv4(ip) == ip.kind \in {"v4", "v4in6"}
SubnetBroadcast(subnet) ==
  [i \in 1..4 |-> subnet.ip.b[i] - (subnet.ip.b[i] % (256 - subnet.mask[i])) + 255 - subnet.mask[i]]
NonDevice(ip, b) ==
  \/ OddMAC(b) \/ b = <<255, 255, 255, 255, 255, 255>>
  \/ IsIPv4(ip) /\ ip.b[1] >= 224 /\ ip.b[1] <= 239
  \/ IsIPv4(ip) /\ ip.b = SubnetBroadcast(calc.subnet)
Emittable(e) ==
  /\ e.IP.kind # "nil" /\ ~e.MAC.nil /\ e.InterfaceName = calc.iface
  /\ ~NonDevice(e.IP, e.MAC.b)
Passed35 == SelectSeq(SubSeq(calc.entries, 1, calc.k - 1), Emittable)
C35_ARPFilter ==
  calc.f = "emitARPEntries" =>
    /\ \A j \in 1..Len(calc.out) : ~NonDevice(calc.out[j].ip, calc.out[j].mac)
    /\ Len(calc.out) = Len(Passed35)
    /\ \A j \in 1..Len(calc.out) :
         calc.out[j].ip = Passed35[j].IP /\ calc.out[j].mac = Passed35[j].MAC.b
    /\ (calc.pc = "done" /\ calc.ret = "nil") => calc.k > Len(calc.entries)
    /\ calc.ret = "ctxErr" => calc.cancelled

\* two entries were read, one filtered as the subnet's broadcast address and
\* one emitted
C35_Witness ==
  /\ calc.f = "emitARPEntries" /\ calc.pc = "done" /\ calc.ret = "nil"
  /\ Len(calc.entries) = 2 /\ Len(calc.out) = 1
  /\ \E j \in 1..2 : /\ calc.entries[j].IP.b = SubnetBroadcast(calc.subnet)
                     /\ calc.entries[j].MAC.b = <<0, 17, 34, 51, 68, 85>>
                     /\ calc.entries[j].InterfaceName = calc.iface

\* C37: for every string s, cleanDisplayName(s + ".local.") equals
\* cleanDisplayName(s), and no result of cleanDisplayName ends with a dot.
EndsWithDot(s) == s # <<>> /\ s[Len(s)] = "."
C37_CleanNameRule ==
  (calc.f = "cleanDisplayName" /\ calc.pc = "done") =>
    /\ calc.suffixed = calc.plain
    /\ ~EndsWithDot(calc.plain) /\ ~EndsWithDot(calc.suffixed)

\* C36: within one mDNS scan at most one Device is sent on the out channel for
\* each (senderIP, ptrValue) announcement, however often it is received.
Announced(ip, ptr) ==
  {j \in 1..Len(calc.out) : calc.out[j].ip = ip /\ calc.out[j].ptr = ptr}
C36_OneDevicePerAnnouncement ==
  calc.f = "listenForResponses" =>
    \A ip \in Senders, ptr \in PTRValues : Cardinality(Announced(ip, ptr)) <= 1

\* an announcement whose Device was sent has been received again
C36_Witness ==
  /\ calc.f = "listenForResponses" /\ calc.repeated
  /\ Cardinality(calc.reportedDevices) = 1
  /\ \E ip \in Senders, ptr \in PTRValues : Cardinality(Announced(ip, ptr)) = 1
  /\ Len(calc.out) = 1

\* C38: after Stream has returned, also when it returned early on a cancelled
\* context, the callback is not invoked any more and no worker probes a port.
C38_NoCallbackAfterReturn ==
  [][(ps.pc = "done" /\ ~ps.panicked) =>
       /\ ps'.calls = ps.calls
       /\ ps'.probed = ps.probed]_vars

\* C39: the producer never sends the context's error on errChan after errChan
\* was closed: no run of Stream ends in a send on a closed channel.
C39_NoSendOnClosedErrChan ==
  [][(ps.pc # "none" /\ ps.errClosed) => ps'.errChan = ps.errChan /\ ~ps'.panicked]_vars

\* C40: only Stop closes the event channel and emits EngineStopped: while Stop
\* has not been called, also after the context passed to Start was cancelled
\* or the single scan of an interval-0 engine has finished, the channel is open
\* and no EngineStopped event has been emitted.
StopNotCalled == \A c \in StopCallers : stop[c].pc = "idle"
C40_ChannelClosedOnlyByStop ==
  StopNotCalled => /\ ~closed
                   /\ nStopped = 0
                   /\ \A j \in 1..Len(events) : events[j] # "EngineStopped"

\* the scan loop has ended, on a cancelled context and after a single scan, and
\* Stop has not been called
C40_Witness ==
  /\ StopNotCalled /\ ~closed
  /\ \E l \in Loops : loop[l].pc = "done" /\ (l \in ctxDone \/ SingleScan)

==============================================================================
